---- MODULE Spec2Model ----
(***************************************************************************)
(* cups-browsed (utils/cups-browsed.c): the remote-printer registry, the   *)
(* resolver that turns discovery events into registry entries, and the     *)
(* timer-driven pass that applies the registry to the local CUPS spooler.  *)
(*                                                                         *)
(* Strings are sequences of characters; a few fixed words ("printers/",    *)
(* "printer", host names) are kept as single tokens.  The local spooler is *)
(* an external service: its answers (active jobs, default printer, request *)
(* failures) are chosen nondeterministically for every pass.               *)
(***************************************************************************)
EXTENDS Integers, Sequences, FiniteSets, TLC

VARIABLES
  remote_printers,        \* cups_array_t *remote_printers, sorted by name
  local_printers,         \* GHashTable *local_printers (mirror of the spooler)
  cups,                   \* queues of the local spooler (external state)
  now,                    \* time(NULL)
  queues_timer_id,        \* the one reconciliation timer: NoTimer or due time
  gmainloop,              \* "running" while g_main_loop_run, then "exited"
  CreateIPPPrinterQueues, \* configuration flag
  nsteps,                 \* discovery events and clock advances so far
  lastCalls,              \* history: spooler requests of the last pass
  browseallow,            \* cups_array_t *browseallow (rules of BrowseAllow)
  browseallow_all,        \* gboolean browseallow_all
  browsepoll_printers,    \* context->printers of the BrowsePoll server
  autoshutdown,           \* int autoshutdown
  autoshutdown_avahi,     \* int autoshutdown_avahi
  autoshutdown_exec_id,   \* guint autoshutdown_exec_id (0: none)
  autoshutdown_source,    \* the pending one-shot source: NoTimer or due time
  sanitized,              \* a call of remove_bad_chars: input, mode, result
  BrowseRemoteProtocols,  \* unsigned int BrowseRemoteProtocols, as a set
  can_subscribe,          \* context->can_subscribe of the BrowsePoll server
  subscription_id,        \* context->subscription_id (-1: none)
  BrowseLocalProtocols,   \* unsigned int BrowseLocalProtocols, as a set
  browse_data             \* GList *browse_data (what send_browse_data sends)

vars == <<remote_printers, local_printers, cups, now, queues_timer_id,
          gmainloop, CreateIPPPrinterQueues, nsteps, lastCalls,
          browseallow, browseallow_all, browsepoll_printers, autoshutdown,
          autoshutdown_avahi, autoshutdown_exec_id, autoshutdown_source,
          sanitized, BrowseRemoteProtocols, can_subscribe, subscription_id,
          BrowseLocalProtocols, browse_data>>

\* what read_configuration and the command line set and nothing changes
config == <<CreateIPPPrinterQueues, browseallow, browseallow_all,
            autoshutdown_avahi, BrowseRemoteProtocols, BrowseLocalProtocols>>

\* the subscription of the BrowsePoll server
pollvars == <<can_subscribe, subscription_id>>

\* the state of the auto shutdown
autovars == <<autoshutdown, autoshutdown_exec_id, autoshutdown_source>>

----------------------------------------------------------------------------
(* Bounds of the model *)

\* discovery events and clock advances in one run of the daemon
MaxSteps == 3

\* the width of an IPv4 address (32 in the program)
AddrBits == 2
MaxStrLen == 3

----------------------------------------------------------------------------
(* Program constants *)

TIMEOUT_IMMEDIATELY == -1
TIMEOUT_CONFIRM == 10
TIMEOUT_RETRY == 10
TIMEOUT_REMOVE == -1
BrowseTimeout == 300
Never == -1
NoTimer == -1

STATUS_UNCONFIRMED == "UNCONFIRMED"
STATUS_CONFIRMED == "CONFIRMED"
STATUS_TO_BE_CREATED == "TO_BE_CREATED"
STATUS_BROWSE_PACKET_RECEIVED == "BROWSE_PACKET_RECEIVED"
STATUS_DISAPPEARED == "DISAPPEARED"

\* NULL for file names and model references; NullString for char * strings
NULL == "NULL"
NullString == <<"(null)">>

----------------------------------------------------------------------------
(* Characters and string helpers *)

UpperCase == {"Q", "H", "P", "L", "J"}
LowerCase == {"q", "printer", "h", "p", "l", "j", "a", "s", "e", "r", "t",
              "w", "i", "d", "n", "m"}
Digits == {"0", "1", "4"}

ToLower(c) ==
  CASE c = "Q" -> "q"
    [] c = "H" -> "h"
    [] c = "P" -> "p"
    [] c = "L" -> "l"
    [] c = "J" -> "j"
    [] c = "SELF" -> "self"
    [] OTHER -> c

RECURSIVE LowerStr(_)
LowerStr(s) == IF s = <<>> THEN <<>> ELSE <<ToLower(Head(s))>> \o LowerStr(Tail(s))

\* strcasecmp(a, b) == 0
StrCaseEq(a, b) == LowerStr(a) = LowerStr(b)

\* strcasecmp(a, b) < 0 for the strings of the model: shorter-or-equal prefix
\* order, then by a fixed order of the first differing character.
CharRank(c) ==
  CASE c = "@" -> 1
    [] c = "h1" -> 2
    [] c = "h2" -> 3
    [] c = "printer" -> 4
    [] c = "q" -> 5
    [] OTHER -> 6

RECURSIVE StrCaseLess(_, _)
StrCaseLess(a, b) ==
  IF b = <<>> THEN FALSE
  ELSE IF a = <<>> THEN TRUE
  ELSE LET x == CharRank(ToLower(Head(a)))
           y == CharRank(ToLower(Head(b)))
       IN IF x # y THEN x < y ELSE StrCaseLess(Tail(a), Tail(b))

----------------------------------------------------------------------------
(* remove_bad_chars: the sanitizer *)

\* The character test of the loop body: letters, digits, '_' and, in mode 1,
\* '/', '.', ','.  Host-name tokens consist of letters and digits only; MIME
\* type tokens consist of letters, '/', '.' and '-' (which stays a '-').
HostTokens == {"h1", "h2", "h3", "h4"}
MimeTokens == {"application/postscript", "application/pdf", "image/pwg-raster",
               "application/vnd.hp-PCL", "application/vnd.hp-PCLXL",
               "application/x-unknown"}

IsAllowedChar(c, mode) ==
  \/ c \in UpperCase
  \/ c \in LowerCase
  \/ c \in Digits
  \/ c \in HostTokens
  \/ c = "_"
  \/ (mode = 1 /\ c \in {"/", ".", ","} \cup MimeTokens)

\* The for loop: i is the read index, j the number of characters written,
\* both over the same buffer str (1-based here, 0-based in C).
RECURSIVE rbc_loop(_, _, _, _, _)
rbc_loop(str, i, j, havedash, mode) ==
  IF i > Len(str) THEN [str |-> str, j |-> j]
  ELSE IF IsAllowedChar(str[i], mode)
       THEN rbc_loop([str EXCEPT ![j + 1] = str[i]], i + 1, j + 1, 0, mode)
       ELSE IF havedash = 1
            THEN rbc_loop(str, i + 1, (j - 1) + 1, 1, mode)
            ELSE rbc_loop([str EXCEPT ![j + 1] = "-"], i + 1, j + 1, 1, mode)

\* while (str[strlen(str)-1] == '-') str[strlen(str)-1] = '\0';
\* (the string; for a string that has become empty see rbc_underrun)
RECURSIVE rbc_cut_trailing(_)
rbc_cut_trailing(s) ==
  IF s # <<>> /\ s[Len(s)] = "-"
  THEN rbc_cut_trailing(SubSeq(s, 1, Len(s) - 1))
  ELSE s

\* a variant that leaves the leading dashes in place
rbc_cut_leading_None(s) == s

\* i = 0; while (str[i] == '-') ++i; memmove(str, str + i, ...)
RECURSIVE rbc_cut_leading(_)
rbc_cut_leading(s) ==
  IF s # <<>> /\ s[1] = "-" THEN rbc_cut_leading(Tail(s)) ELSE s

\* the string after the for loop and its terminating zero
rbc_terminated(str_orig, mode) ==
  SubSeq(rbc_loop(str_orig, 1, 0, 0, mode).str, 1,
         rbc_loop(str_orig, 1, 0, 0, mode).j)

remove_bad_chars(str_orig, mode) ==
  IF Len(str_orig) < 1 THEN str_orig
  ELSE rbc_cut_leading(rbc_cut_trailing(rbc_terminated(str_orig, mode)))

\* When cutting the trailing dashes has emptied the string, strlen(str)-1
\* wraps around and the test of the while loop reads the byte in front of
\* the buffer (undefined behaviour).  before is that byte; when it is a '-'
\* the loop overwrites it by '\0' and stops, str[0] being '\0' already.
\* The result is that byte after the call.
rbc_underrun(str_orig, mode, before) ==
  IF /\ Len(str_orig) >= 1
     /\ rbc_cut_trailing(rbc_terminated(str_orig, mode)) = <<>>
     /\ before = "-"
  THEN "\\0"
  ELSE before

----------------------------------------------------------------------------
(* Device URIs: httpAssembleURIf(scheme, host, port, "/%s", resource).  All *)
(* printers of the model use the same port.                                 *)

AssembleURI(scheme, host, resource) ==
  [scheme |-> scheme, host |-> host, resource |-> resource]

\* a variant that compares the scheme too
UriAfterScheme_WithScheme(u) == <<u.scheme>> \o u.host \o u.resource

\* strchr(uri, ':'): the URI after the scheme
UriAfterScheme(u) == u.host \o u.resource

\* strncasecmp(resource, "printers/", 9) == 0, and classes/
IsPrinterResource(resource) == resource # <<>> /\ resource[1] = "printers/"
IsClassResource(resource) == resource # <<>> /\ resource[1] = "classes/"

----------------------------------------------------------------------------
(* The registry array: cupsArrayNew(compare_remote_printers), kept sorted   *)
(* by strcasecmp(name); cupsArrayAdd puts a new element after the elements  *)
(* that compare equal.                                                      *)

compare_remote_printers_le(a, b) == ~StrCaseLess(b.name, a.name)

cupsArrayAdd(a, e) ==
  LET k == Cardinality({i \in 1..Len(a) : compare_remote_printers_le(a[i], e)})
  IN SubSeq(a, 1, k) \o <<e>> \o SubSeq(a, k + 1, Len(a))

\* the loops that break at the first element passing a test: the least of
\* the indices S of the elements that pass, or 0 when the loop runs off the end
FirstIndex(S) ==
  IF S = {} THEN 0 ELSE CHOOSE i \in S : \A k \in S : i <= k

----------------------------------------------------------------------------
(* The local spooler (external): a set of queues.  controlled is the        *)
(* cups-browsed mark, byUs records that a pass of this process issued a     *)
(* successful create-or-modify for the queue.                               *)

NewQueue(name, uri, controlled, byUs) ==
  [name |-> name, device_uri |-> uri, controlled |-> controlled, byUs |-> byUs,
   shared |-> FALSE]

\* CUPS-Add-Modify-Printer: queue names are case-insensitive in the spooler;
\* options are the options of the request; a queue the request creates is
\* shared unless the request says otherwise
SpoolerAddModify(qs, name, uri, options) ==
  LET old == {q \in qs : StrCaseEq(q.name, name)}
      was == IF old = {} THEN TRUE ELSE (CHOOSE q \in old : TRUE).shared
  IN (qs \ old) \cup
     {[name |-> IF old = {} THEN name ELSE (CHOOSE q \in old : TRUE).name,
       device_uri |-> uri,
       controlled |-> \/ "cups-browsed-default=true" \in options
                      \/ \E q \in old : q.controlled,
       byUs |-> TRUE,
       shared |-> IF "printer-is-shared=false" \in options THEN FALSE ELSE was]}

\* CUPS-Delete-Printer
SpoolerDelete(qs, name) == {q \in qs : ~StrCaseEq(q.name, name)}

\* the effect on the spooler of the requests of one pass, in order
RECURSIVE ApplyCalls(_, _)
ApplyCalls(qs, calls) ==
  IF calls = <<>> THEN qs
  ELSE LET c == Head(calls)
           qs2 == IF ~c.ok THEN qs
                  ELSE IF c.op = "add-modify"
                       THEN SpoolerAddModify(qs, c.name, c.uri, c.options)
                       ELSE IF c.op = "delete"
                       THEN SpoolerDelete(qs, c.name)
                       ELSE qs
       IN ApplyCalls(qs2, Tail(calls))

\* get_local_printers: cupsGetDests, device-uri and the cups-browsed option
get_local_printers(qs) ==
  {[name |-> q.name, device_uri |-> q.device_uri,
    cups_browsed_controlled |-> q.controlled] : q \in qs}

----------------------------------------------------------------------------
(* prepare_browse_data: the answer to CUPS-Get-Printers is a list of         *)
(* attributes, the attributes of each printer in the group IPP_TAG_PRINTER  *)
(* and a separator of another group between two printers.                   *)

\* printer-type is a bit field; the model keeps the one bit that is tested
CUPS_PRINTER_NOT_SHARED == 1
IPP_PRINTER_IDLE == 3

Attr(group, name, value) == [group |-> group, name |-> name, value |-> value]

\* the attributes the spooler reports for the queue q
PrinterAttrs(q) ==
  << Attr("printer", "printer-state", IPP_PRINTER_IDLE),
     Attr("printer", "printer-type",
          IF q.shared THEN 0 ELSE CUPS_PRINTER_NOT_SHARED),
     Attr("printer", "printer-uri-supported",
          AssembleURI("ipp", <<"localhost">>, <<"printers/">> \o q.name)),
     Attr("printer", "printer-location", <<>>),
     Attr("printer", "printer-info", q.name),
     Attr("printer", "printer-make-and-model", <<"m">>) >>

\* the answer of the spooler: its queues in the order of their names
RECURSIVE GetPrintersResponse(_)
GetPrintersResponse(qs) ==
  IF qs = {} THEN <<>>
  ELSE LET q == CHOOSE x \in qs : \A y \in qs : ~StrCaseLess(y.name, x.name)
       IN <<Attr("operation", "separator", NULL)>> \o PrinterAttrs(q)
            \o GetPrintersResponse(qs \ {q})

\* the locals at the head of the outer loop; set holds the names of the
\* pointers that are not NULL
NoBrowseData == [type |-> -1, state |-> -1, set |-> {}, uri |-> <<>>,
                 location |-> <<>>, info |-> <<>>, make_model |-> <<>>]

\* the inner loop (lines 486-567) from the attribute at k: the attributes
\* read into d, and the position at which the loop stops
RECURSIVE pbd_printer(_, _, _)
pbd_printer(resp, k, d) ==
  IF k > Len(resp) \/ resp[k].group # "printer" THEN [k |-> k, d |-> d]
  ELSE LET a == resp[k]
       IN IF a.name = "printer-type"
          THEN IF a.value % (2 * CUPS_PRINTER_NOT_SHARED) >= CUPS_PRINTER_NOT_SHARED
               THEN [k |-> k, d |-> [d EXCEPT !.state = -1, !.type = -1]]
               ELSE pbd_printer(resp, k + 1, [d EXCEPT !.type = a.value])
          ELSE IF a.name = "printer-state"
          THEN pbd_printer(resp, k + 1, [d EXCEPT !.state = a.value])
          ELSE IF a.name = "printer-uri-supported"
          THEN pbd_printer(resp, k + 1, [d EXCEPT !.uri = a.value,
                                             !.set = @ \cup {"uri"}])
          ELSE IF a.name = "printer-location"
          THEN pbd_printer(resp, k + 1, [d EXCEPT !.location = a.value,
                                             !.set = @ \cup {"location"}])
          ELSE IF a.name = "printer-info"
          THEN pbd_printer(resp, k + 1, [d EXCEPT !.info = a.value,
                                             !.set = @ \cup {"info"}])
          ELSE IF a.name = "printer-make-and-model"
          THEN pbd_printer(resp, k + 1, [d EXCEPT !.make_model = a.value,
                                             !.set = @ \cup {"make_model"}])
          ELSE pbd_printer(resp, k + 1, d)

\* the record is complete (line 575)
pbd_complete(d) ==
  /\ d.type # -1 /\ d.state # -1
  /\ {"uri", "location", "info", "make_model"} \subseteq d.set

\* a variant of the inner loop that reads the type of a queue that is not
\* shared like any other type
RECURSIVE pbd_loop_SharesAll(_, _, _)
pbd_loop_SharesAll(resp, k, data) ==
  LET skip == {i \in k..Len(resp) : resp[i].group = "printer"}
  IN IF skip = {} THEN data
     ELSE LET shown == [i \in 1..Len(resp) |->
                          IF resp[i].name = "printer-type"
                          THEN [resp[i] EXCEPT !.value = 0] ELSE resp[i]]
              r == pbd_printer(shown, FirstIndex(skip), NoBrowseData)
              data2 == IF pbd_complete(r.d) THEN <<r.d>> \o data ELSE data
          IN IF r.k > Len(resp) THEN data2
             ELSE pbd_loop_SharesAll(resp, r.k + 1, data2)

\* the outer loop (lines 472-599) from the attribute at k
RECURSIVE pbd_loop(_, _, _)
pbd_loop(resp, k, data) ==
  LET skip == {i \in k..Len(resp) : resp[i].group = "printer"}
  IN IF skip = {} THEN data
     ELSE LET r == pbd_printer(resp, FirstIndex(skip), NoBrowseData)
              data2 == IF pbd_complete(r.d) THEN <<r.d>> \o data ELSE data
          IN IF r.k > Len(resp) THEN data2
             ELSE pbd_loop(resp, r.k + 1, data2)

prepare_browse_data(qs) == pbd_loop(GetPrintersResponse(qs), 1, <<>>)

----------------------------------------------------------------------------
(* handle_cups_queues: one pass over the registry.  o is the spooler's      *)
(* answer for this entry: o.jobs (cupsGetJobs2 returned non-zero) and o.ok  *)
(* (the spooler accepts the delete or add-modify request); o.stale is the   *)
(* outcome of reading a file name through a freed pointer (the memory no    *)
(* longer holds the name, so the file request fails).  def is the default   *)
(* printer name reported by CUPS-Get-Default, or NullString.                *)

\* a request sent to the spooler: the operation, the entry p (at position idx
\* of the array) it is sent for, the file sent with it, and whether it
\* succeeded; reply is the printer name in the answer to CUPS-Get-Default
Call(op, p, idx, file, ok) ==
  [op |-> op, idx |-> idx, name |-> p.name, uri |-> p.uri,
   duplicate |-> p.duplicate, file |-> file, ok |-> ok, entry |-> p,
   reply |-> NullString,
   options |-> IF op = "add-modify"
               THEN {"cups-browsed-default=true", "printer-is-shared=false"}
               ELSE {}]

Kept(p, calls) == [keep |-> TRUE, p |-> p, calls |-> calls]
Removed(p, calls) == [keep |-> FALSE, p |-> p, calls |-> calls]

\* a variant that asks for the active jobs and goes on whatever the answer
HandleDisappeared_IgnoreJobs(p, idx, current_time, o, def) ==
  IF p.timeout > current_time THEN Kept(p, <<>>)
  ELSE IF p.duplicate = 0
  THEN LET retry == [p EXCEPT !.timeout = current_time + TIMEOUT_RETRY]
           isdef == def # NullString /\ StrCaseEq(def, p.name)
           jobs == Call("get-jobs", p, idx, NULL, ~o.jobs)
           getdef == [Call("get-default", p, idx, NULL, ~isdef) EXCEPT !.reply = def]
       IN IF isdef THEN Kept(retry, <<jobs, getdef>>)
          ELSE IF ~o.ok
          THEN Kept(retry, <<jobs, getdef, Call("delete", p, idx, NULL, FALSE)>>)
          ELSE Removed(p, <<jobs, getdef, Call("delete", p, idx, NULL, TRUE)>>)
  ELSE Removed(p, <<>>)

\* a variant that compares the default printer name with strcmp
HandleDisappeared_DefaultCaseSensitive(p, idx, current_time, o, def) ==
  IF p.timeout > current_time THEN Kept(p, <<>>)
  ELSE IF p.duplicate = 0
  THEN LET retry == [p EXCEPT !.timeout = current_time + TIMEOUT_RETRY]
           isdef == def # NullString /\ def = p.name
           jobs == Call("get-jobs", p, idx, NULL, ~o.jobs)
           getdef == [Call("get-default", p, idx, NULL, ~isdef) EXCEPT !.reply = def]
       IN IF o.jobs THEN Kept(retry, <<jobs>>)
          ELSE IF isdef THEN Kept(retry, <<jobs, getdef>>)
          ELSE IF ~o.ok
          THEN Kept(retry, <<jobs, getdef, Call("delete", p, idx, NULL, FALSE)>>)
          ELSE Removed(p, <<jobs, getdef, Call("delete", p, idx, NULL, TRUE)>>)
  ELSE Removed(p, <<>>)

\* a variant that takes the entry out of the array whatever the answer to
\* the delete request
HandleDisappeared_RemoveOnFailure(p, idx, current_time, o, def) ==
  IF p.timeout > current_time THEN Kept(p, <<>>)
  ELSE IF p.duplicate = 0
  THEN LET retry == [p EXCEPT !.timeout = current_time + TIMEOUT_RETRY]
           isdef == def # NullString /\ StrCaseEq(def, p.name)
           jobs == Call("get-jobs", p, idx, NULL, ~o.jobs)
           getdef == [Call("get-default", p, idx, NULL, ~isdef) EXCEPT !.reply = def]
       IN IF o.jobs THEN Kept(retry, <<jobs>>)
          ELSE IF isdef THEN Kept(retry, <<jobs, getdef>>)
          ELSE Removed(p, <<jobs, getdef, Call("delete", p, idx, NULL, o.ok)>>)
  ELSE Removed(p, <<>>)

\* a variant that keeps the queue of the default printer without setting a
\* new deadline
HandleDisappeared_DefaultKeepsDeadline(p, idx, current_time, o, def) ==
  IF p.timeout > current_time THEN Kept(p, <<>>)
  ELSE IF p.duplicate = 0
  THEN LET retry == [p EXCEPT !.timeout = current_time + TIMEOUT_RETRY]
           isdef == def # NullString /\ StrCaseEq(def, p.name)
           jobs == Call("get-jobs", p, idx, NULL, ~o.jobs)
           getdef == [Call("get-default", p, idx, NULL, ~isdef) EXCEPT !.reply = def]
       IN IF o.jobs THEN Kept(retry, <<jobs>>)
          ELSE IF isdef THEN Kept(p, <<jobs, getdef>>)
          ELSE IF ~o.ok
          THEN Kept(retry, <<jobs, getdef, Call("delete", p, idx, NULL, FALSE)>>)
          ELSE Removed(p, <<jobs, getdef, Call("delete", p, idx, NULL, TRUE)>>)
  ELSE Removed(p, <<>>)

\* case STATUS_DISAPPEARED.  The log records every request: for get-jobs ok
\* means "no active jobs", for get-default ok means "not the default printer".
HandleDisappeared(p, idx, current_time, o, def) ==
  IF p.timeout > current_time THEN Kept(p, <<>>)
  ELSE IF p.duplicate = 0
  THEN LET retry == [p EXCEPT !.timeout = current_time + TIMEOUT_RETRY]
           isdef == def # NullString /\ StrCaseEq(def, p.name)
           jobs == Call("get-jobs", p, idx, NULL, ~o.jobs)
           getdef == [Call("get-default", p, idx, NULL, ~isdef) EXCEPT !.reply = def]
       IN IF o.jobs THEN Kept(retry, <<jobs>>)
          ELSE IF isdef THEN Kept(retry, <<jobs, getdef>>)
          ELSE IF ~o.ok
          THEN Kept(retry, <<jobs, getdef, Call("delete", p, idx, NULL, FALSE)>>)
          ELSE Removed(p, <<jobs, getdef, Call("delete", p, idx, NULL, TRUE)>>)
  ELSE Removed(p, <<>>)

\* a variant that ends the case after marking the entry: no fall through
HandleUnconfirmed_Break(p, idx, current_time, o, def) ==
  IF p.timeout > current_time THEN Kept(p, <<>>)
  ELSE Kept([p EXCEPT !.status = STATUS_DISAPPEARED,
                      !.timeout = current_time + TIMEOUT_IMMEDIATELY], <<>>)

\* case STATUS_UNCONFIRMED, falling through to STATUS_DISAPPEARED
HandleUnconfirmed(p, idx, current_time, o, def) ==
  IF p.timeout > current_time THEN Kept(p, <<>>)
  ELSE HandleDisappeared([p EXCEPT !.status = STATUS_DISAPPEARED,
                                   !.timeout = current_time + TIMEOUT_IMMEDIATELY],
                         idx, current_time, o, def)

\* a variant that leaves the deadline alone when the create-or-modify fails
HandleToBeCreated_NoRetryDeadline(p, idx, current_time, o) ==
  IF p.duplicate # 0 THEN Kept([p EXCEPT !.timeout = Never], <<>>)
  ELSE IF p.timeout > current_time THEN Kept(p, <<>>)
  ELSE
    LET ppd == IF p.model # NULL THEN "serverppd" ELSE p.ppd
        file == IF ppd # NULL THEN ppd
                ELSE IF p.ifscript # NULL THEN p.ifscript ELSE NULL
        p2 == IF ppd # NULL
              THEN [p EXCEPT !.ppd = IF p.model # NULL THEN NULL ELSE ppd]
              ELSE IF p.ifscript # NULL THEN [p EXCEPT !.ifscript = NULL]
              ELSE p
        sent == o.ok /\ ~(file = "freed" /\ o.stale)
        calls == <<Call("add-modify", p, idx, file, sent)>>
    IN IF ~sent
       THEN Kept(p2, calls)
       ELSE IF p.status = STATUS_BROWSE_PACKET_RECEIVED
       THEN Kept([p2 EXCEPT !.status = STATUS_DISAPPEARED,
                            !.timeout = current_time + BrowseTimeout], calls)
       ELSE Kept([p2 EXCEPT !.status = STATUS_CONFIRMED,
                            !.timeout = Never], calls)

\* a variant without the test that keeps duplicates from being provisioned
HandleToBeCreated_NoDuplicateTest(p, idx, current_time, o) ==
  IF p.timeout > current_time THEN Kept(p, <<>>)
  ELSE
    LET ppd == IF p.model # NULL THEN "serverppd" ELSE p.ppd
        file == IF ppd # NULL THEN ppd
                ELSE IF p.ifscript # NULL THEN p.ifscript ELSE NULL
        p2 == IF ppd # NULL
              THEN [p EXCEPT !.ppd = IF p.model # NULL THEN NULL ELSE ppd]
              ELSE IF p.ifscript # NULL THEN [p EXCEPT !.ifscript = NULL]
              ELSE p
        sent == o.ok /\ ~(file = "freed" /\ o.stale)
        calls == <<Call("add-modify", p, idx, file, sent)>>
    IN IF ~sent
       THEN Kept([p2 EXCEPT !.timeout = current_time + TIMEOUT_RETRY], calls)
       ELSE IF p.status = STATUS_BROWSE_PACKET_RECEIVED
       THEN Kept([p2 EXCEPT !.status = STATUS_DISAPPEARED,
                            !.timeout = current_time + BrowseTimeout], calls)
       ELSE Kept([p2 EXCEPT !.status = STATUS_CONFIRMED,
                            !.timeout = Never], calls)

\* case STATUS_TO_BE_CREATED / STATUS_BROWSE_PACKET_RECEIVED
HandleToBeCreated(p, idx, current_time, o) ==
  IF p.duplicate # 0 THEN Kept([p EXCEPT !.timeout = Never], <<>>)
  ELSE IF p.timeout > current_time THEN Kept(p, <<>>)
  ELSE
    LET ppd == IF p.model # NULL THEN "serverppd" ELSE p.ppd
        file == IF ppd # NULL THEN ppd
                ELSE IF p.ifscript # NULL THEN p.ifscript ELSE NULL
        p2 == IF ppd # NULL
              THEN [p EXCEPT !.ppd = IF p.model # NULL THEN NULL ELSE ppd]
              ELSE IF p.ifscript # NULL THEN [p EXCEPT !.ifscript = NULL]
              ELSE p
        sent == o.ok /\ ~(file = "freed" /\ o.stale)
        calls == <<Call("add-modify", p, idx, file, sent)>>
    IN IF ~sent
       THEN Kept([p2 EXCEPT !.timeout = current_time + TIMEOUT_RETRY], calls)
       ELSE IF p.status = STATUS_BROWSE_PACKET_RECEIVED
       THEN Kept([p2 EXCEPT !.status = STATUS_DISAPPEARED,
                            !.timeout = current_time + BrowseTimeout], calls)
       ELSE Kept([p2 EXCEPT !.status = STATUS_CONFIRMED,
                            !.timeout = Never], calls)

\* switch (p->status)
HandleEntry(p, idx, current_time, o, def) ==
  CASE p.status = STATUS_UNCONFIRMED ->
         HandleUnconfirmed(p, idx, current_time, o, def)
    [] p.status = STATUS_DISAPPEARED ->
         HandleDisappeared(p, idx, current_time, o, def)
    [] p.status \in {STATUS_TO_BE_CREATED, STATUS_BROWSE_PACKET_RECEIVED} ->
         HandleToBeCreated(p, idx, current_time, o)
    [] OTHER -> Kept(p, <<>>)

\* the for loop over the array; returns the new array, the requests issued
\* and what became of every entry (results[i] for the i-th entry)
RECURSIVE PassFrom(_, _, _, _, _)
PassFrom(a, idx, current_time, env, def) ==
  IF idx > Len(a) THEN [printers |-> <<>>, calls |-> <<>>, results |-> <<>>]
  ELSE LET r == HandleEntry(a[idx], idx, current_time, env[idx], def)
           rest == PassFrom(a, idx + 1, current_time, env, def)
       IN [printers |-> (IF r.keep THEN <<r.p>> ELSE <<>>) \o rest.printers,
           calls |-> r.calls \o rest.calls,
           results |-> <<r>> \o rest.results]

handle_cups_queues_result(a, current_time, env, def) ==
  PassFrom(a, 1, current_time, env, def)

\* a variant that takes the deadline of the first entry that has one
recheck_timer_value_First(a, t) ==
  LET pending == {i \in 1..Len(a) : a[i].timeout # Never}
  IN IF pending = {} THEN NoTimer
     ELSE IF \E i \in pending : t > a[i].timeout THEN t + 0
     ELSE a[CHOOSE i \in pending : \A k \in pending : i <= k].timeout

\* recheck_timer: the due time of the timer for the registry a, or NoTimer
recheck_timer_value(a, t) ==
  LET pending == {i \in 1..Len(a) : a[i].timeout # Never}
  IN IF pending = {} THEN NoTimer
     ELSE IF \E i \in pending : t > a[i].timeout THEN t + 0
     ELSE CHOOSE d \in {a[i].timeout : i \in pending} :
            \A i \in pending : d <= a[i].timeout

\* recheck_timer (): returns at once when there is no main loop
recheck_timer(a, t, loop, old) ==
  IF loop # "running" THEN old ELSE recheck_timer_value(a, t)

----------------------------------------------------------------------------
(* create_local_queue *)

\* strlen of a string of the model (multi-character tokens count their length)
TokLen(c) ==
  CASE c = "printer" -> 7
    [] c = "application/pdf" -> 15
    [] c = "application/x-unknown" -> 21
    [] c \in HostTokens -> 2
    [] OTHER -> 1

RECURSIVE strlen(_)
strlen(s) == IF s = <<>> THEN 0 ELSE TokLen(Head(s)) + strlen(Tail(s))

\* the PDLs create_local_queue accepts (strcasestr tests)
KnownPDLs == {"application/postscript", "application/pdf", "image/pwg-raster",
              "application/vnd.hp-PCL", "application/vnd.hp-PCLXL"}

PdlKnown(pdl) ==
  /\ pdl # NullString
  /\ pdl # <<>>
  /\ \E i \in 1..Len(pdl) : pdl[i] \in KnownPDLs

NewEntry(name, uri, host, info, type, domain, t) ==
  [name |-> name, uri |-> uri, ppd |-> NULL, model |-> NULL, ifscript |-> NULL,
   status |-> STATUS_TO_BE_CREATED, timeout |-> t + TIMEOUT_IMMEDIATELY,
   duplicate |-> 0, host |-> host, service_name |-> info, type |-> type,
   domain |-> domain]

\* the is_cups_queue branch: the scan for an equally named entry
create_cups_branch(a, p) ==
  LET SameName(q) == StrCaseEq(q.name, p.name)
      qi == FirstIndex({i \in 1..Len(a) : SameName(a[i])})
      dup == IF qi # 0 /\ a[qi].status # STATUS_DISAPPEARED
                       /\ a[qi].status # STATUS_UNCONFIRMED THEN 1 ELSE 0
      a2 == IF dup = 0 /\ qi # 0 THEN [a EXCEPT ![qi].duplicate = 1] ELSE a
  IN [ok |-> TRUE, printers |-> a2, p |-> [p EXCEPT !.duplicate = dup]]

\* a variant that does not record the interface script it has written
create_ipp_branch_ScriptNotRecorded(a, p, pdl, flag, probe) ==
  IF flag = 0 THEN [ok |-> FALSE, printers |-> a, p |-> p]
  ELSE IF ~PdlKnown(pdl) THEN [ok |-> FALSE, printers |-> a, p |-> p]
  ELSE IF probe = "fail" THEN [ok |-> FALSE, printers |-> a, p |-> p]
  ELSE IF probe = "script"
  THEN [ok |-> TRUE, printers |-> a,
        p |-> [p EXCEPT !.duplicate = 0, !.model = NULL, !.ppd = NULL,
                        !.ifscript = NULL]]
  ELSE [ok |-> TRUE, printers |-> a,
        p |-> [p EXCEPT !.duplicate = 0, !.model = NULL, !.ppd = "ppd",
                        !.ifscript = NULL]]

\* the branch for IPP network printers; probe is the outcome of the request
\* to the printer: "ppd" (_ppdCreateFromIPP succeeded), "script" (it failed
\* and the interface script was written) or "fail" (no connection, no file)
create_ipp_branch(a, p, pdl, flag, probe) ==
  IF flag = 0 THEN [ok |-> FALSE, printers |-> a, p |-> p]
  ELSE IF ~PdlKnown(pdl) THEN [ok |-> FALSE, printers |-> a, p |-> p]
  ELSE IF probe = "fail" THEN [ok |-> FALSE, printers |-> a, p |-> p]
  ELSE IF probe = "script"
  THEN [ok |-> TRUE, printers |-> a,
        p |-> [p EXCEPT !.duplicate = 0, !.model = NULL, !.ppd = NULL,
                        !.ifscript = "ifscript"]]
  ELSE [ok |-> TRUE, printers |-> a,
        p |-> [p EXCEPT !.duplicate = 0, !.model = NULL, !.ppd = "ppd",
                        !.ifscript = NULL]]

\* returns the new array and the index of the new entry (0 for NULL)
create_local_queue(a, name, uri, host, info, type, domain, pdl, is_cups_queue, t, flag, probe) ==
  LET p0 == NewEntry(name, uri, host, info, type, domain, t)
      r == IF is_cups_queue # 0 THEN create_cups_branch(a, p0)
           ELSE create_ipp_branch(a, p0, pdl, flag, probe)
  IN IF ~r.ok THEN [printers |-> a, p |-> 0]
     ELSE LET a3 == cupsArrayAdd(r.printers, r.p)
          IN [printers |-> a3,
              p |-> CHOOSE i \in 1..Len(a3) :
                      /\ a3[i] = r.p
                      /\ \A k \in (i + 1)..Len(a3) : ~StrCaseEq(a3[k].name, r.p.name)]

----------------------------------------------------------------------------
(* generate_local_queue *)

\* remote_host: the sanitized host name without a trailing ".local"
RemoteHost(host) ==
  LET h == remove_bad_chars(host, 1)
  IN IF Len(h) > 1 /\ h[Len(h)] = ".local" THEN SubSeq(h, 1, Len(h) - 1) ELSE h

\* a TXT record; NoTxt stands for txt == NULL
NoTxt == [present |-> FALSE, product |-> NullString, usb_MDL |-> NullString,
          ty |-> NullString, pdl |-> NullString]

\* the TXT record test of a Bonjour-advertised CUPS queue: "product" must be
\* present and of the form "(...)"; without TXT record a non-empty domain
\* makes the queue raw
IsRawQueue(txt, domain) ==
  IF txt.present
  THEN \/ txt.product = NullString
       \/ txt.product = <<>>
       \/ txt.product[1] # "("
       \/ txt.product[Len(txt.product)] # ")"
  ELSE domain # ""

\* queue name of an IPP network printer: "printer" unless the TXT record has
\* product, usb_MDL or ty of at least 3 characters
ModelName(txt) ==
  IF ~txt.present THEN <<"printer">>
  ELSE IF txt.product # NullString /\ strlen(txt.product) >= 3
       THEN remove_bad_chars(txt.product, 0)
  ELSE IF txt.usb_MDL # NullString /\ strlen(txt.usb_MDL) >= 3
       THEN remove_bad_chars(txt.usb_MDL, 0)
  ELSE IF txt.ty # NullString /\ strlen(txt.ty) >= 3
       THEN remove_bad_chars(txt.ty, 0)
  ELSE <<"printer">>

TxtPdl(txt) ==
  IF txt.present /\ txt.pdl # NullString /\ strlen(txt.pdl) >= 3
  THEN remove_bad_chars(txt.pdl, 1) ELSE NullString

\* g_hash_table_lookup (local_printers, name): exact match of the key
LookupLocal(lp, name) == {l \in lp : l.name = name}
ForeignLocal(lp, name) == \E l \in LookupLocal(lp, name) : ~l.cups_browsed_controlled

Ignored(a) == [printers |-> a, p |-> 0]

\* the part after the name has been settled (lines 1409-1515)
glq_resolve(a, local_queue_name, create, uri, remote_host, name, type, domain, pdl, is_cups_queue, t, flag, probe) ==
  LET Match(p) == /\ StrCaseEq(p.name, local_queue_name)
                  /\ \/ p.host = <<>>
                     \/ p.status = STATUS_UNCONFIRMED
                     \/ p.status = STATUS_DISAPPEARED
                     \/ StrCaseEq(p.host, remote_host)
      pi == FirstIndex({i \in 1..Len(a) : Match(a[i])})
  IN IF ~create THEN [printers |-> a, p |-> pi]
     ELSE IF pi # 0
     THEN LET p == a[pi]
              upgrade == type = "_ipps._tcp" /\ p.uri.scheme = "ipp"
              changed == ~StrCaseEq(UriAfterScheme(p.uri), UriAfterScheme(uri))
              p1 == IF upgrade \/ changed
                    THEN [p EXCEPT !.uri = uri,
                                   !.status = STATUS_TO_BE_CREATED,
                                   !.timeout = t + TIMEOUT_IMMEDIATELY,
                                   !.host = remote_host,
                                   !.service_name = name,
                                   !.type = type,
                                   !.domain = domain]
                    ELSE IF p.status \in {STATUS_UNCONFIRMED, STATUS_DISAPPEARED}
                    THEN [p EXCEPT !.status = STATUS_CONFIRMED, !.timeout = Never]
                    ELSE p
              p2 == [p1 EXCEPT
                       !.host = IF p1.host = <<>> THEN remote_host ELSE @,
                       !.service_name = IF p1.service_name = "" THEN name ELSE @,
                       !.type = IF p1.type = "" THEN type ELSE @,
                       !.domain = IF p1.domain = "" THEN domain ELSE @]
          IN [printers |-> [a EXCEPT ![pi] = p2], p |-> pi]
     ELSE create_local_queue(a, local_queue_name, uri, remote_host, name, type,
                             domain, pdl, is_cups_queue, t, flag, probe)

\* a variant that takes the name of the remote queue whatever the mirror has
generate_local_queue_NameTaken(a, lp, host, resource, name, type, domain, txt, t, flag, probe) ==
  LET uri == AssembleURI(IF type = "_ipps._tcp" THEN "ipps" ELSE "ipp",
                         host, resource)
      remote_host == RemoteHost(host)
      is_cups_queue == IF IsPrinterResource(resource) \/ IsClassResource(resource)
                       THEN 1 ELSE 0
      remote_queue == IF is_cups_queue = 1
                      THEN remove_bad_chars(Tail(resource), 0)
                      ELSE ModelName(txt)
      pdl == IF is_cups_queue = 1 THEN NullString ELSE TxtPdl(txt)
      create == ~\E l \in lp : l.device_uri = uri
  IN IF IsPrinterResource(resource) /\ IsRawQueue(txt, domain) THEN Ignored(a)
     ELSE glq_resolve(a, remote_queue, create, uri, remote_host, name,
                      type, domain, pdl, is_cups_queue, t, flag, probe)

\* lp is the mirror after update_local_printers ()
generate_local_queue(a, lp, host, resource, name, type, domain, txt, t, flag, probe) ==
  LET uri == AssembleURI(IF type = "_ipps._tcp" THEN "ipps" ELSE "ipp",
                         host, resource)
      remote_host == RemoteHost(host)
      is_cups_queue == IF IsPrinterResource(resource) \/ IsClassResource(resource)
                       THEN 1 ELSE 0
      remote_queue == IF is_cups_queue = 1
                      THEN remove_bad_chars(Tail(resource), 0)
                      ELSE ModelName(txt)
      pdl == IF is_cups_queue = 1 THEN NullString ELSE TxtPdl(txt)
      backup_queue_name == remote_queue \o <<"@">> \o remote_host
      create == ~\E l \in lp : l.device_uri = uri
  IN IF IsPrinterResource(resource) /\ IsRawQueue(txt, domain) THEN Ignored(a)
     ELSE IF create /\ ForeignLocal(lp, remote_queue)
                    /\ ForeignLocal(lp, backup_queue_name)
     THEN Ignored(a)
     ELSE LET local_queue_name ==
                IF create /\ ForeignLocal(lp, remote_queue)
                THEN backup_queue_name ELSE remote_queue
          IN glq_resolve(a, local_queue_name, create, uri, remote_host, name,
                         type, domain, pdl, is_cups_queue, t, flag, probe)

\* a variant that treats a new entry like one with a queue: it starts the
\* lease without marking the entry as received by a browse packet
found_cups_printer_LeaseAtOnce(a, lp, netifs, uri, info, t, flag) ==
  IF \E iface \in netifs : StrCaseEq(uri.host, iface) THEN a
  ELSE IF ~(IsPrinterResource(uri.resource) \/ IsClassResource(uri.resource))
  THEN a
  ELSE LET r == generate_local_queue(a, lp, uri.host, uri.resource, info,
                                     "", "", NoTxt, t, flag, "fail")
       IN IF r.p = 0 THEN r.printers
          ELSE [r.printers EXCEPT ![r.p].status = STATUS_DISAPPEARED,
                                  ![r.p].timeout = t + BrowseTimeout]

\* a variant that marks the entry of a known printer without renewing its
\* deadline
found_cups_printer_KeepsDeadline(a, lp, netifs, uri, info, t, flag) ==
  IF \E iface \in netifs : StrCaseEq(uri.host, iface) THEN a
  ELSE IF ~(IsPrinterResource(uri.resource) \/ IsClassResource(uri.resource))
  THEN a
  ELSE LET r == generate_local_queue(a, lp, uri.host, uri.resource, info,
                                     "", "", NoTxt, t, flag, "fail")
       IN IF r.p = 0 THEN r.printers
          ELSE IF r.printers[r.p].status = STATUS_TO_BE_CREATED
          THEN [r.printers EXCEPT ![r.p].status = STATUS_BROWSE_PACKET_RECEIVED]
          ELSE [r.printers EXCEPT ![r.p].status = STATUS_DISAPPEARED]

\* a variant without the test for this host's own broadcasts
found_cups_printer_NoOwnCheck(a, lp, netifs, uri, info, t, flag) ==
  IF ~(IsPrinterResource(uri.resource) \/ IsClassResource(uri.resource))
  THEN a
  ELSE LET r == generate_local_queue(a, lp, uri.host, uri.resource, info,
                                     "", "", NoTxt, t, flag, "fail")
       IN IF r.p = 0 THEN r.printers
          ELSE IF r.printers[r.p].status = STATUS_TO_BE_CREATED
          THEN [r.printers EXCEPT ![r.p].status = STATUS_BROWSE_PACKET_RECEIVED]
          ELSE [r.printers EXCEPT ![r.p].status = STATUS_DISAPPEARED,
                                  ![r.p].timeout = t + BrowseTimeout]

\* found_cups_printer: a legacy browse packet or a BrowsePoll result
found_cups_printer(a, lp, netifs, uri, info, t, flag) ==
  IF \E iface \in netifs : StrCaseEq(uri.host, iface) THEN a
  ELSE IF ~(IsPrinterResource(uri.resource) \/ IsClassResource(uri.resource))
  THEN a
  ELSE LET r == generate_local_queue(a, lp, uri.host, uri.resource, info,
                                     "", "", NoTxt, t, flag, "fail")
       IN IF r.p = 0 THEN r.printers
          ELSE IF r.printers[r.p].status = STATUS_TO_BE_CREATED
          THEN [r.printers EXCEPT ![r.p].status = STATUS_BROWSE_PACKET_RECEIVED]
          ELSE [r.printers EXCEPT ![r.p].status = STATUS_DISAPPEARED,
                                  ![r.p].timeout = t + BrowseTimeout]

----------------------------------------------------------------------------
(* browse_callback, AVAHI_BROWSER_REMOVE *)

\* a pointer that was freed and not reassigned
Dangling(x) == IF x = NULL THEN NULL ELSE "freed"

\* a variant that schedules no removal for a withdrawn entry
browse_callback_remove_NoDeadline(a, name, type, domain, t) ==
  LET Listed(p) == p.service_name = name /\ p.type = type /\ p.domain = domain
      pi == FirstIndex({i \in 1..Len(a) : Listed(a[i])})
  IN IF pi = 0 THEN a ELSE [a EXCEPT ![pi].status = STATUS_DISAPPEARED]

\* a variant that gives a withdrawn entry without backup the retry interval
browse_callback_remove_RetryDeadline(a, name, type, domain, t) ==
  LET Listed(p) == p.service_name = name /\ p.type = type /\ p.domain = domain
      pi == FirstIndex({i \in 1..Len(a) : Listed(a[i])})
  IN IF pi = 0 THEN a
     ELSE
       LET p == a[pi]
           Backup(q) == /\ StrCaseEq(q.name, p.name)
                        /\ ~StrCaseEq(q.host, p.host)
                        /\ q.duplicate # 0
           qi == IF p.duplicate = 0 THEN FirstIndex({i \in 1..Len(a) : Backup(a[i])}) ELSE 0
       IN IF qi # 0
          THEN LET q == a[qi]
               IN [a EXCEPT
                     ![pi] = [p EXCEPT
                                !.uri = q.uri,
                                !.host = q.host,
                                !.service_name = q.service_name,
                                !.type = q.type,
                                !.domain = q.domain,
                                !.ppd = IF q.ppd # NULL THEN q.ppd ELSE Dangling(p.ppd),
                                !.model = IF q.model # NULL THEN q.model
                                          ELSE Dangling(p.model),
                                !.ifscript = IF q.ifscript # NULL THEN q.ifscript
                                             ELSE Dangling(p.ifscript),
                                !.status = STATUS_TO_BE_CREATED,
                                !.timeout = t + TIMEOUT_IMMEDIATELY],
                     ![qi] = [q EXCEPT
                                !.status = STATUS_DISAPPEARED,
                                !.timeout = t + TIMEOUT_IMMEDIATELY]]
          ELSE [a EXCEPT ![pi].status = STATUS_DISAPPEARED,
                         ![pi].timeout = t + TIMEOUT_RETRY]

browse_callback_remove(a, name, type, domain, t) ==
  LET Listed(p) == p.service_name = name /\ p.type = type /\ p.domain = domain
      pi == FirstIndex({i \in 1..Len(a) : Listed(a[i])})
  IN IF pi = 0 THEN a
     ELSE
       LET p == a[pi]
           Backup(q) == /\ StrCaseEq(q.name, p.name)
                        /\ ~StrCaseEq(q.host, p.host)
                        /\ q.duplicate # 0
           qi == IF p.duplicate = 0 THEN FirstIndex({i \in 1..Len(a) : Backup(a[i])}) ELSE 0
       IN IF qi # 0
          THEN LET q == a[qi]
               IN [a EXCEPT
                     ![pi] = [p EXCEPT
                                !.uri = q.uri,
                                !.host = q.host,
                                !.service_name = q.service_name,
                                !.type = q.type,
                                !.domain = q.domain,
                                !.ppd = IF q.ppd # NULL THEN q.ppd ELSE Dangling(p.ppd),
                                !.model = IF q.model # NULL THEN q.model
                                          ELSE Dangling(p.model),
                                !.ifscript = IF q.ifscript # NULL THEN q.ifscript
                                             ELSE Dangling(p.ifscript),
                                !.status = STATUS_TO_BE_CREATED,
                                !.timeout = t + TIMEOUT_IMMEDIATELY],
                     ![qi] = [q EXCEPT
                                !.status = STATUS_DISAPPEARED,
                                !.timeout = t + TIMEOUT_IMMEDIATELY]]
          ELSE [a EXCEPT ![pi].status = STATUS_DISAPPEARED,
                         ![pi].timeout = t + TIMEOUT_REMOVE]

----------------------------------------------------------------------------
(* The environment of the model: the services that can be announced, the    *)
(* legacy packets that can arrive, and the spooler at startup.              *)

CupsTxt == [present |-> TRUE, product |-> <<"(", "q", ")">>,
            usb_MDL |-> NullString, ty |-> NullString, pdl |-> NullString]
PdfTxt == [present |-> TRUE, product |-> <<"(", "q", ")">>, usb_MDL |-> NullString,
           ty |-> NullString, pdl |-> <<"application/pdf">>]

Service(id, host, rp, name, type, txt) ==
  [id |-> id, host |-> host, rp |-> rp, name |-> name, type |-> type,
   domain |-> "local", txt |-> txt]

\* two hosts sharing a CUPS queue q (the second one spells it Q) and an IPP
\* network printer whose product string gives the same queue name
Services ==
  { Service("A", <<"h1">>, <<"printers/", "q">>, "q @ h1", "_ipp._tcp", CupsTxt),
    Service("B", <<"h2">>, <<"printers/", "Q">>, "q @ h2", "_ipp._tcp", CupsTxt),
    Service("C", <<"h3">>, <<"ipp/print">>, "np @ h3", "_ipp._tcp", PdfTxt) }

IsNative(s) == ~(IsPrinterResource(s.rp) \/ IsClassResource(s.rp))

\* the outcomes of the capability request to an announced printer
Probes(s) == IF IsNative(s) THEN {"ppd", "script", "fail"} ELSE {"fail"}

Packet(id, host, resource, info) ==
  [id |-> id, uri |-> AssembleURI("ipp", host, resource), info |-> info]

Packets ==
  { Packet("LA", <<"h1">>, <<"printers/", "q">>, "q on h1") }

----------------------------------------------------------------------------
(* BrowseAllow: the access rules for inbound CUPS browse packets.  An IPv4   *)
(* address (s_addr) is a number of AddrBits bits; the browse socket is an   *)
(* AF_INET socket, so every source address is an IPv4 address.              *)

Full == 2 ^ AddrBits - 1
Addresses == 0..Full

\* bit i of the address a
Bit(a, i) == (a \div 2 ^ i) % 2

\* a & b on addresses
BitAnd(a, b) ==
  CHOOSE c \in Addresses :
    \A i \in 0..(AddrBits - 1) : Bit(c, i) = Bit(a, i) * Bit(b, i)

ALLOW_IP == "ALLOW_IP"
ALLOW_NET == "ALLOW_NET"
ALLOW_INVALID == "ALLOW_INVALID"

\* the values of BrowseAllow lines: "all", an address, address/bits,
\* address/dotted-mask, and text that inet_aton or strtoul does not accept
AllValue == [form |-> "all", addr |-> 0, arg |-> 0]
IpValue(a) == [form |-> "ip", addr |-> a, arg |-> 0]
BitsValue(a, n) == [form |-> "net/bits", addr |-> a, arg |-> n]
MaskValue(a, m) == [form |-> "net/mask", addr |-> a, arg |-> m]
JunkValue == [form |-> "junk", addr |-> 0, arg |-> 0]

\* htonl (((0xffffffff << (32 - bits)) & 0xffffffff)); a shift by the whole
\* width of the type (bits = 0) is undefined, shift0 is what it yields
PrefixMask(bits, shift0) ==
  IF bits = 0 THEN shift0 ELSE (Full * 2 ^ (AddrBits - bits)) % (Full + 1)

\* read_browseallow_value for a value other than "all": the rule added to
\* browseallow; the field value keeps the configured text (history)
read_browseallow_value(value, shift0) ==
  CASE value.form = "ip" ->
         [type |-> ALLOW_IP, addr |-> value.addr, mask |-> 0, value |-> value]
    [] value.form = "net/mask" ->
         [type |-> ALLOW_NET, addr |-> value.addr, mask |-> value.arg,
          value |-> value]
    [] value.form = "net/bits" /\ value.arg <= AddrBits ->
         [type |-> ALLOW_NET, addr |-> value.addr,
          mask |-> PrefixMask(value.arg, shift0), value |-> value]
    [] OTHER -> [type |-> ALLOW_INVALID, addr |-> 0, mask |-> 0, value |-> value]

\* the value of a BrowseAllow line is other than "all"
NotAll(value) == value.form # "all"

\* read_configuration: the BrowseAllow lines in order
read_browseallow(lines, shift0) ==
  LET values == SelectSeq(lines, NotAll)
  IN [i \in 1..Len(values) |-> read_browseallow_value(values[i], shift0)]

\* a variant that matches a network rule by the rule's address alone
allowed_NetIgnoresSource(src, rules, all) ==
  \/ all
  \/ Len(rules) = 0
  \/ \E i \in 1..Len(rules) :
       \/ rules[i].type = ALLOW_IP /\ src = rules[i].addr
       \/ rules[i].type = ALLOW_NET
            /\ BitAnd(rules[i].addr, rules[i].mask) = rules[i].addr

\* allowed (srcaddr) for an AF_INET source
allowed(src, rules, all) ==
  \/ all
  \/ Len(rules) = 0
  \/ \E i \in 1..Len(rules) :
       \/ rules[i].type = ALLOW_IP /\ src = rules[i].addr
       \/ rules[i].type = ALLOW_NET
            /\ BitAnd(src, rules[i].mask) = rules[i].addr

\* the configurations of BrowseAllow lines of the model
AllowLines ==
  { <<>>,
    <<AllValue>>,
    <<IpValue(1)>>,
    <<BitsValue(2, 1)>>,
    <<BitsValue(1, 1)>>,
    <<BitsValue(0, 0)>>,
    <<MaskValue(2, 2)>>,
    <<BitsValue(1, AddrBits + 1)>>,
    <<JunkValue>>,
    <<JunkValue, IpValue(2)>>,
    <<IpValue(1), AllValue>> }

\* addresses of this host's broadcast interfaces (update_netifs)
netifs == {<<"self">>}

UriA == AssembleURI("ipp", <<"h1">>, <<"printers/", "q">>)

\* the spooler when the daemon starts: empty, or holding the queue q that a
\* previous session created
InitialSpoolers ==
  { {},
    {NewQueue(<<"q">>, UriA, TRUE, FALSE)} }

----------------------------------------------------------------------------
(* Startup: main until g_main_loop_run *)

\* a variant that takes every queue of the mirror for one of a previous
\* session
find_previous_queue_Unmarked(a, l, t) ==
  LET r == create_local_queue(a, l.name, l.device_uri, <<>>, "", "", "",
                              NullString, 1, t, 0, "fail")
  IN [r.printers EXCEPT
        ![r.p].status = STATUS_UNCONFIRMED,
        ![r.p].timeout =
           IF "CUPS" \in BrowseRemoteProtocols
           THEN t + BrowseTimeout ELSE t + TIMEOUT_CONFIRM,
        ![r.p].duplicate = 0]

\* find_previous_queue: the callback for the queue l of the mirror
find_previous_queue(a, l, t) ==
  LET r == create_local_queue(a, l.name, l.device_uri, <<>>, "", "", "",
                              NullString, 1, t, 0, "fail")
  IN IF l.cups_browsed_controlled
     THEN [r.printers EXCEPT
             ![r.p].status = STATUS_UNCONFIRMED,
             ![r.p].timeout =
                IF "CUPS" \in BrowseRemoteProtocols
                THEN t + BrowseTimeout ELSE t + TIMEOUT_CONFIRM,
             ![r.p].duplicate = 0]
     ELSE a

\* g_hash_table_foreach (local_printers, find_previous_queue, NULL)
RECURSIVE find_previous_queues(_, _, _)
find_previous_queues(lp, a, t) ==
  IF lp = {} THEN a
  ELSE LET l == CHOOSE x \in lp : TRUE
       IN find_previous_queues(lp \ {l}, find_previous_queue(a, l, t), t)

StartTime == 1

\* no call of remove_bad_chars is followed
NoCall == [mode |-> 0, str |-> <<>>, before |-> "q", out |-> NullString]

\* int autoshutdown_timeout
autoshutdown_timeout == 30

\* create_local_queue, after cupsArrayAdd: a pending auto shutdown is killed
create_kills_timer(as, id, source, before, after) ==
  IF as # 0 /\ id # 0 /\ Len(after) > Len(before)
  THEN [id |-> 0, source |-> NoTimer]
  ELSE [id |-> id, source |-> source]

\* handle_cups_queues, after cupsArrayRemove: the auto shutdown is scheduled
\* when the array has become empty and no shutdown is scheduled
pass_arms_timer(as, id, source, before, after, t) ==
  IF as # 0 /\ id = 0 /\ Len(after) < Len(before) /\ Len(after) = 0
  THEN [id |-> 1, source |-> t + autoshutdown_timeout]
  ELSE [id |-> id, source |-> source]

\* main until g_main_loop_run, but for the configuration
InitDaemon ==
  /\ BrowseLocalProtocols = {}
  /\ browse_data = <<>>
  /\ can_subscribe = TRUE
  /\ subscription_id = -1
  /\ BrowseRemoteProtocols = {"DNSSD", "CUPS"}
  /\ cups \in InitialSpoolers
  /\ local_printers = get_local_printers(cups)
  /\ now = StartTime
  /\ remote_printers = find_previous_queues(get_local_printers(cups), <<>>, StartTime)
  /\ gmainloop = "running"
  /\ queues_timer_id = recheck_timer_value(remote_printers, StartTime)
  /\ nsteps = 0
  /\ lastCalls = <<>>
  /\ browsepoll_printers = <<>>
  /\ sanitized = NoCall

\* the daemon with no BrowseAllow line, no BrowsePoll server and without
\* auto shutdown
Init ==
  /\ InitDaemon
  /\ CreateIPPPrinterQueues \in {0, 1}
  /\ browseallow = <<>>
  /\ browseallow_all = FALSE
  /\ autoshutdown = 0
  /\ autoshutdown_avahi = 0
  /\ autoshutdown_exec_id = 0
  /\ autoshutdown_source = NoTimer

\* update_local_printers, lines 637-640
update_browse_data(qs) ==
  IF "CUPS" \in BrowseLocalProtocols THEN prepare_browse_data(qs) ELSE browse_data

----------------------------------------------------------------------------
(* Handlers *)

\* resolve_callback, AVAHI_RESOLVER_FOUND
Announce(s, probe) ==
  /\ gmainloop = "running"
  /\ nsteps < MaxSteps
  /\ nsteps' = nsteps + 1
  /\ "DNSSD" \in BrowseRemoteProtocols
  /\ LET raw == IsPrinterResource(s.rp) /\ IsRawQueue(s.txt, s.domain)
         lp == IF raw THEN local_printers ELSE get_local_printers(cups)
         r == generate_local_queue(remote_printers, lp, s.host, s.rp, s.name,
                                   s.type, s.domain, s.txt, now,
                                   CreateIPPPrinterQueues, probe)
     IN /\ local_printers' = lp
        /\ browse_data' = IF raw THEN browse_data ELSE update_browse_data(cups)
        /\ remote_printers' = r.printers
        /\ queues_timer_id' = recheck_timer(r.printers, now, gmainloop,
                                            queues_timer_id)
        /\ autoshutdown_exec_id' =
             create_kills_timer(autoshutdown, autoshutdown_exec_id,
               autoshutdown_source, remote_printers, remote_printers').id
        /\ autoshutdown_source' =
             create_kills_timer(autoshutdown, autoshutdown_exec_id,
               autoshutdown_source, remote_printers, remote_printers').source
  /\ lastCalls' = <<>>
  /\ UNCHANGED <<cups, now, gmainloop, config, pollvars, autoshutdown,
                 browsepoll_printers, sanitized>>

\* browse_callback, AVAHI_BROWSER_REMOVE
Withdraw(s) ==
  /\ gmainloop = "running"
  /\ nsteps < MaxSteps
  /\ nsteps' = nsteps + 1
  /\ "DNSSD" \in BrowseRemoteProtocols
  /\ LET Listed(p) == p.service_name = s.name /\ p.type = s.type
                                              /\ p.domain = s.domain
         a == browse_callback_remove(remote_printers, s.name, s.type, s.domain, now)
     IN /\ remote_printers' = a
        /\ queues_timer_id' =
             IF FirstIndex({i \in 1..Len(remote_printers) : Listed(remote_printers[i])}) # 0
             THEN recheck_timer(a, now, gmainloop, queues_timer_id)
             ELSE queues_timer_id
  /\ lastCalls' = <<>>
  /\ UNCHANGED <<local_printers, browse_data, cups, now, gmainloop, config, pollvars, autovars,
                 browsepoll_printers, sanitized>>

\* found_cups_printer returns before generate_local_queue (and its
\* update_local_printers) for one of this host's own broadcasts and for a
\* resource it does not understand
fcp_understood(uri) ==
  /\ ~\E iface \in netifs : StrCaseEq(uri.host, iface)
  /\ IsPrinterResource(uri.resource) \/ IsClassResource(uri.resource)

\* the mirror and the browse data after found_cups_printer for each printer
\* of list (at most one printer)
fcp_local_printers(list) ==
  IF list # <<>> /\ fcp_understood(list[1].uri)
  THEN get_local_printers(cups) ELSE local_printers

fcp_browse_data(list) ==
  IF list # <<>> /\ fcp_understood(list[1].uri)
  THEN update_browse_data(cups) ELSE browse_data

\* process_browse_data for a well-formed announcement received from the
\* address src
BrowsePacket(pk, src) ==
  /\ gmainloop = "running"
  /\ nsteps < MaxSteps
  /\ nsteps' = nsteps + 1
  /\ "CUPS" \in BrowseRemoteProtocols
  /\ IF ~allowed(src, browseallow, browseallow_all)
     THEN UNCHANGED <<local_printers, browse_data, remote_printers, queues_timer_id,
                      autoshutdown_exec_id, autoshutdown_source>>
     ELSE
       LET lp == fcp_local_printers(<<pk>>)
           a == found_cups_printer(remote_printers, lp, netifs, pk.uri, pk.info,
                                   now, CreateIPPPrinterQueues)
       IN /\ local_printers' = lp
          /\ browse_data' = fcp_browse_data(<<pk>>)
          /\ remote_printers' = a
          /\ queues_timer_id' = recheck_timer(a, now, gmainloop, queues_timer_id)
          /\ autoshutdown_exec_id' =
               create_kills_timer(autoshutdown, autoshutdown_exec_id,
                 autoshutdown_source, remote_printers, remote_printers').id
          /\ autoshutdown_source' =
               create_kills_timer(autoshutdown, autoshutdown_exec_id,
                 autoshutdown_source, remote_printers, remote_printers').source
  /\ lastCalls' = <<>>
  /\ UNCHANGED <<cups, now, gmainloop, config, pollvars, autoshutdown,
                 browsepoll_printers, sanitized>>

\* the spooler's answers to the requests of one pass
Outcomes == { [jobs |-> FALSE, ok |-> TRUE, stale |-> FALSE],
              [jobs |-> TRUE, ok |-> TRUE, stale |-> FALSE],
              [jobs |-> FALSE, ok |-> FALSE, stale |-> FALSE],
              [jobs |-> FALSE, ok |-> TRUE, stale |-> TRUE] }

OkOutcome == [jobs |-> FALSE, ok |-> TRUE, stale |-> FALSE]

\* the entry names a file through a pointer that was freed
HasFreed(p) == p.ppd = "freed" \/ p.ifscript = "freed"

\* the entries for which a pass at time t sends requests to the spooler
AsksSpooler(p, t) ==
  /\ p.duplicate = 0
  /\ p.status # STATUS_CONFIRMED
  /\ p.timeout <= t

\* the answers that can differ are those to requests that are sent
Answers(a, t) ==
  {env \in [1..Len(a) -> Outcomes] :
     \A i \in 1..Len(a) :
       /\ ~AsksSpooler(a[i], t) => env[i] = OkOutcome
       /\ env[i].stale => HasFreed(a[i])}

Defaults(a, t) ==
  {NullString} \cup
  {a[i].name : i \in {k \in 1..Len(a) : AsksSpooler(a[k], t)
                                       /\ a[k].status # STATUS_TO_BE_CREATED
                                       /\ a[k].status # STATUS_BROWSE_PACKET_RECEIVED}}

\* the reconciliation timer fires: handle_cups_queues with the answers env, def
TimerPassWith(env, def) ==
  /\ gmainloop = "running"
  /\ queues_timer_id # NoTimer
  /\ now >= queues_timer_id
  /\ LET r == handle_cups_queues_result(remote_printers, now, env, def)
     IN /\ remote_printers' = r.printers
        /\ cups' = ApplyCalls(cups, r.calls)
        /\ lastCalls' = r.calls
        /\ queues_timer_id' = recheck_timer(r.printers, now, gmainloop,
                                            queues_timer_id)
        /\ autoshutdown_exec_id' =
             pass_arms_timer(autoshutdown, autoshutdown_exec_id, autoshutdown_source,
               remote_printers, remote_printers', now).id
        /\ autoshutdown_source' =
             pass_arms_timer(autoshutdown, autoshutdown_exec_id, autoshutdown_source,
               remote_printers, remote_printers', now).source
  /\ UNCHANGED <<local_printers, browse_data, now, gmainloop, config, pollvars, nsteps, autoshutdown,
                 browsepoll_printers, sanitized>>

TimerPass ==
  \E env \in Answers(remote_printers, now),
     def \in Defaults(remote_printers, now) : TimerPassWith(env, def)

\* a variant that leaves the entries alone that need no action in a pass
ForceDisappeared_SkipConfirmed(a, t) ==
  [i \in 1..Len(a) |->
     IF a[i].status = STATUS_CONFIRMED THEN a[i]
     ELSE [a[i] EXCEPT !.status = STATUS_DISAPPEARED,
                       !.timeout = t + TIMEOUT_IMMEDIATELY]]

\* main after g_main_loop_run returns: every entry is forced to DISAPPEARED
ForceDisappeared(a, t) ==
  [i \in 1..Len(a) |-> [a[i] EXCEPT !.status = STATUS_DISAPPEARED,
                                    !.timeout = t + TIMEOUT_IMMEDIATELY]]

\* g_main_loop_quit (SIGTERM, SIGINT or auto shutdown) and the final pass
ShutdownWith(env, def) ==
  /\ gmainloop = "running"
  /\ gmainloop' = "exited"
  /\ LET forced == ForceDisappeared(remote_printers, now)
         r == handle_cups_queues_result(forced, now, env, def)
     IN /\ remote_printers' = r.printers
        /\ cups' = ApplyCalls(cups, r.calls)
        /\ lastCalls' = r.calls
        /\ queues_timer_id' = recheck_timer(r.printers, now, "exited",
                                            queues_timer_id)
        /\ autoshutdown_exec_id' =
             pass_arms_timer(autoshutdown, autoshutdown_exec_id, autoshutdown_source,
               remote_printers, remote_printers', now).id
        /\ autoshutdown_source' =
             pass_arms_timer(autoshutdown, autoshutdown_exec_id, autoshutdown_source,
               remote_printers, remote_printers', now).source
  /\ UNCHANGED <<local_printers, browse_data, now, config, pollvars, nsteps, autoshutdown,
                 browsepoll_printers, sanitized>>

Shutdown ==
  \E env \in Answers(ForceDisappeared(remote_printers, now), now),
     def \in Defaults(ForceDisappeared(remote_printers, now), now) :
    ShutdownWith(env, def)

\* time passes: to a pending deadline, or by one second
NextTimes ==
  {now + 1} \cup
  {remote_printers[i].timeout : i \in 1..Len(remote_printers)} \cup
  {autoshutdown_source}

Tick ==
  /\ gmainloop = "running"
  /\ nsteps < MaxSteps
  /\ \E t \in NextTimes : t > now /\ now' = t
  /\ nsteps' = nsteps + 1
  /\ lastCalls' = <<>>
  /\ UNCHANGED <<remote_printers, local_printers, browse_data, cups, queues_timer_id,
                 gmainloop, config, pollvars, autovars, browsepoll_printers, sanitized>>

Next ==
  \/ \E s \in Services : \E probe \in Probes(s) : Announce(s, probe)
  \/ \E s \in Services : Withdraw(s)
  \/ \E pk \in Packets : \E src \in Addresses : BrowsePacket(pk, src)
  \/ TimerPass
  \/ Shutdown
  \/ Tick

Spec == Init /\ [][Next]_vars

----------------------------------------------------------------------------
(* Vocabulary of the properties *)

Entries == 1..Len(remote_printers)

\* the entries called name (names are compared as the array compares them)
Named(a, name) == {i \in 1..Len(a) : StrCaseEq(a[i].name, name)}

\* the queue called name in the spooler qs, as a set of at most one queue
QueueNamed(qs, name) == {q \in qs : StrCaseEq(q.name, name)}

\* the position after a pass of the entry that was the i-th before it
NewIndex(results, i) == Cardinality({k \in 1..i : results[k].keep})

\* the requests of a pass that were sent for its i-th entry
CallsFor(calls, i) == {k \in 1..Len(calls) : calls[k].idx = i}

Admin == {"add-modify", "delete"}

\* the queue name generate_local_queue derives for an announced service
QueueNameOf(s) ==
  IF IsNative(s) THEN ModelName(s.txt) ELSE remove_bad_chars(Tail(s.rp), 0)

\* the device URI generate_local_queue assembles for an announced service
UriOf(s) == AssembleURI(IF s.type = "_ipps._tcp" THEN "ipps" ELSE "ipp", s.host, s.rp)

\* the last pass was refused the removal of the queue called name: the
\* active-jobs query returned non-zero, the queue was reported as the default
\* printer, or the delete request failed
Blocked(name) ==
  \E k \in 1..Len(lastCalls) :
    /\ StrCaseEq(lastCalls[k].name, name)
    /\ ~lastCalls[k].ok
    /\ lastCalls[k].op \in {"get-jobs", "get-default", "delete"}

\* the last pass deleted the queue called name
Deleted(name) ==
  \E k \in 1..Len(lastCalls) :
    /\ StrCaseEq(lastCalls[k].name, name)
    /\ lastCalls[k].ok
    /\ lastCalls[k].op = "delete"

\* the step is taken inside the main loop by a timer (no discovery event,
\* no clock advance); the step leaves the main loop
InLoop == gmainloop' = "running" /\ nsteps' = nsteps
Exiting == gmainloop = "running" /\ gmainloop' = "exited"

----------------------------------------------------------------------------
(* C1: the registry never contains two entries with the same name (compared *)
(* case-insensitively) that both have duplicate = 0.                        *)
C1_UniquePrimary ==
  \A i, j \in Entries :
    (i # j /\ StrCaseEq(remote_printers[i].name, remote_printers[j].name))
      => ~(remote_printers[i].duplicate = 0 /\ remote_printers[j].duplicate = 0)

(* C2: every local queue that a pass of this process has provisioned and    *)
(* that is still in the spooler has exactly one non-duplicate entry of its  *)
(* name, and that entry is CONFIRMED, DISAPPEARED, TO_BE_CREATED or         *)
(* BROWSE_PACKET_RECEIVED.                                                  *)
C2_NoOrphanQueues ==
  \A q \in cups :
    q.byUs =>
      LET prim == {i \in Named(remote_printers, q.name) :
                     remote_printers[i].duplicate = 0}
      IN /\ Cardinality(prim) = 1
         /\ \A i \in prim :
              remote_printers[i].status \in
                {STATUS_CONFIRMED, STATUS_DISAPPEARED, STATUS_TO_BE_CREATED,
                 STATUS_BROWSE_PACKET_RECEIVED}

(* C3, as claimed: when the main loop has exited and the final pass has run, *)
(* no local queue created by this process remains in the spooler, whatever  *)
(* the spooler answered in that pass.                                       *)
C3_ShutdownRemovesAll ==
  gmainloop = "exited" => \A q \in cups : ~q.byUs

(* C3, amended: when the main loop has exited and the final pass has run,   *)
(* every entry left in the registry is a non-duplicate Disappeared entry    *)
(* whose removal was refused in that pass and whose deadline is now + the   *)
(* retry interval; a local queue created by this process remains only if    *)
(* the pass was refused its removal (active-jobs query non-zero, queue is   *)
(* the default, or delete failed) and did not delete it.                    *)
C3_ShutdownRemovesUnlessBlocked ==
  gmainloop = "exited" =>
    /\ \A i \in Entries :
         /\ remote_printers[i].status = STATUS_DISAPPEARED
         /\ remote_printers[i].duplicate = 0
         /\ remote_printers[i].timeout = now + TIMEOUT_RETRY
         /\ Blocked(remote_printers[i].name)
    /\ \A q \in cups :
         q.byUs => /\ Named(remote_printers, q.name) # {}
                   /\ Blocked(q.name)
                   /\ ~Deleted(q.name)

\* the daemon has exited and left behind a queue it had created
C3_Witness ==
  /\ gmainloop = "exited"
  /\ \E q \in cups : q.byUs /\ Blocked(q.name)

(* C4: for every entry in status Unconfirmed or Disappeared, processing an  *)
(* Announce of the same unchanged printer (same derived name, same host,    *)
(* same device URI, hence no transport upgrade) leaves all other entries    *)
(* and this entry's uri, ppd, model and ifscript unchanged and sets its     *)
(* status to Confirmed with deadline Never, whatever the spooler holds.     *)
C4_IdempotentReannounce ==
  [][\A s \in Services : \A probe \in Probes(s) :
       Announce(s, probe) =>
         \A i \in Entries :
           LET p == remote_printers[i]
           IN (/\ p.status \in {STATUS_UNCONFIRMED, STATUS_DISAPPEARED}
               /\ StrCaseEq(p.name, QueueNameOf(s))
               /\ StrCaseEq(p.host, RemoteHost(s.host))
               /\ p.uri = UriOf(s))
              => /\ Len(remote_printers') = Len(remote_printers)
                 /\ remote_printers'[i].status = STATUS_CONFIRMED
                 /\ remote_printers'[i].timeout = Never
                 /\ remote_printers'[i].uri = p.uri
                 /\ remote_printers'[i].ppd = p.ppd
                 /\ remote_printers'[i].model = p.model
                 /\ remote_printers'[i].ifscript = p.ifscript
    ]_vars

\* entry i is a non-duplicate entry whose queue is provisioned and entry j is
\* a duplicate of the same name on another host; no other entry has the name
C5_Pair(i, j) ==
  LET p == remote_printers[i]
      q == remote_printers[j]
  IN /\ Named(remote_printers, p.name) = {i, j}
     /\ i # j
     /\ p.duplicate = 0
     /\ q.duplicate # 0
     /\ ~StrCaseEq(q.host, p.host)
     /\ \E c \in QueueNamed(cups, p.name) : c.byUs

\* the pair after the Withdraw of the first: entry i carries the host and
\* URI of entry j and is pending, entry j is Disappeared, both are due
C5_FailedOver(i, j) ==
  LET p == remote_printers[i]
      q == remote_printers[j]
  IN /\ Named(remote_printers, p.name) = {i, j}
     /\ i # j
     /\ p.duplicate = 0
     /\ q.duplicate # 0
     /\ \E c \in QueueNamed(cups, p.name) : c.byUs
     /\ p.status = STATUS_TO_BE_CREATED
     /\ p.timeout = now + TIMEOUT_IMMEDIATELY
     /\ q.status = STATUS_DISAPPEARED
     /\ q.timeout = now + TIMEOUT_IMMEDIATELY
     /\ p.uri = q.uri
     /\ p.host = q.host
     /\ p.service_name = q.service_name

(* C5: given a non-duplicate entry A with a provisioned queue and a         *)
(* duplicate entry B of the same name on another host (the only entries of  *)
(* that name), the Withdraw of A makes A's entry pending with B's host and  *)
(* URI and B's entry Disappeared, and the next pass, when the spooler       *)
(* accepts its requests, leaves exactly one entry of that name, which is    *)
(* non-duplicate and carries B's host and URI, re-points the queue to B's   *)
(* URI by a successful create-or-modify and sends no delete for that name.  *)
C5_DedupFailover ==
  [][/\ \A s \in Services : \A i, j \in Entries :
          (/\ Withdraw(s)
           /\ C5_Pair(i, j)
           /\ remote_printers[i].service_name = s.name
           /\ remote_printers[i].type = s.type
           /\ remote_printers[i].domain = s.domain)
          => /\ Len(remote_printers') = Len(remote_printers)
             /\ remote_printers'[i].duplicate = 0
             /\ remote_printers'[i].status = STATUS_TO_BE_CREATED
             /\ remote_printers'[i].timeout = now + TIMEOUT_IMMEDIATELY
             /\ remote_printers'[i].uri = remote_printers[j].uri
             /\ remote_printers'[i].host = remote_printers[j].host
             /\ remote_printers'[j].duplicate # 0
             /\ remote_printers'[j].status = STATUS_DISAPPEARED
             /\ remote_printers'[j].timeout = now + TIMEOUT_IMMEDIATELY
     /\ InLoop =>
        \A env \in Answers(remote_printers, now) :
        \A def \in Defaults(remote_printers, now) :
        \A i, j \in Entries :
          (/\ TimerPassWith(env, def)
           /\ C5_FailedOver(i, j)
           /\ env[i].ok)
          => LET b == remote_printers[j]
                 left == Named(remote_printers', b.name)
             IN /\ Cardinality(left) = 1
                /\ \A k \in left :
                     /\ remote_printers'[k].duplicate = 0
                     /\ remote_printers'[k].host = b.host
                     /\ remote_printers'[k].uri = b.uri
                /\ \A c \in QueueNamed(cups', b.name) : c.device_uri = b.uri
                /\ QueueNamed(cups', b.name) # {}
                /\ \E k \in 1..Len(lastCalls') :
                     /\ lastCalls'[k].op = "add-modify"
                     /\ lastCalls'[k].ok
                     /\ lastCalls'[k].idx = i
                     /\ lastCalls'[k].uri = b.uri
                /\ \A k \in 1..Len(lastCalls') :
                     lastCalls'[k].op = "delete"
                       => ~StrCaseEq(lastCalls'[k].name, b.name)
    ]_vars

\* After holds of every pass: the pass of the timer over the registry a, and
\* the final pass over the registry with every entry forced to Disappeared
EveryPass(After(_)) ==
  /\ InLoop => After(remote_printers)
  /\ Exiting => After(ForceDisappeared(remote_printers, now))

\* the requests the pass sent for the entry at position i of its array
PassCalls(i) ==
  {lastCalls'[k] : k \in {n \in 1..Len(lastCalls') : lastCalls'[n].idx = i}}

\* the active-jobs query of the pass for entry i returned non-zero / zero
JobsFound(i) == \E c \in PassCalls(i) : c.op = "get-jobs" /\ ~c.ok
NoJobsFound(i) == \E c \in PassCalls(i) : c.op = "get-jobs" /\ c.ok

\* the spooler answered the pass's default-printer query for entry i with name
DefaultReported(i, name) ==
  \E c \in PassCalls(i) :
    c.op = "get-default" /\ c.reply # NullString /\ StrCaseEq(c.reply, name)

\* every request the pass sent for entry i succeeded (for the queries: no
\* active jobs, not the default printer)
AllOk(i) == \A c \in PassCalls(i) : c.ok

\* entry p is a non-duplicate Disappeared entry whose deadline has passed
DueForRemoval(p) ==
  /\ p.status = STATUS_DISAPPEARED
  /\ p.duplicate = 0
  /\ p.timeout <= now

\* after the pass the entry that was p is still in the registry, unchanged
\* but for its deadline, which is now + the retry interval, and the pass
\* sent no delete for the entry at position i
KeptForRetry(p, i) ==
  /\ \E k \in 1..Len(remote_printers') :
       remote_printers'[k] = [p EXCEPT !.timeout = now + TIMEOUT_RETRY]
  /\ \A c \in PassCalls(i) : c.op # "delete"

(* C6: in a pass, a non-duplicate Disappeared entry whose deadline has      *)
(* passed and for which the active-jobs query returns non-zero is not       *)
(* removed: no delete is sent for it, it stays in the registry as           *)
(* Disappeared, and its deadline becomes now + the retry interval.          *)
C6_JobsKeepQueue ==
  [][LET After(a) ==
           \A i \in 1..Len(a) :
             (DueForRemoval(a[i]) /\ JobsFound(i)) => KeptForRetry(a[i], i)
     IN EveryPass(After)]_vars

\* a pass has found active jobs on the queue of an entry due for removal
C6_Witness ==
  \E i \in Entries : \E k \in 1..Len(lastCalls) :
    /\ lastCalls[k].op = "get-jobs"
    /\ ~lastCalls[k].ok
    /\ lastCalls[k].entry.status = STATUS_DISAPPEARED
    /\ remote_printers[i] = [lastCalls[k].entry EXCEPT !.timeout = now + TIMEOUT_RETRY]
    /\ QueueNamed(cups, remote_printers[i].name) # {}

(* C7: in a pass, a non-duplicate Disappeared entry whose deadline has      *)
(* passed, that has no active jobs and whose queue is reported as the       *)
(* system default is not removed: no delete is sent for it, it stays        *)
(* Disappeared and its deadline becomes now + the retry interval; this      *)
(* holds of every pass in which the queue is the default.                   *)
C7_DefaultKeepsQueue ==
  [][LET After(a) ==
           \A i \in 1..Len(a) :
             (/\ DueForRemoval(a[i])
              /\ NoJobsFound(i)
              /\ DefaultReported(i, a[i].name)) => KeptForRetry(a[i], i)
     IN EveryPass(After)]_vars

\* a pass has found the queue of an entry due for removal to be the default
C7_Witness ==
  \E i \in Entries : \E k \in 1..Len(lastCalls) :
    /\ lastCalls[k].op = "get-default"
    /\ ~lastCalls[k].ok
    /\ lastCalls[k].entry.status = STATUS_DISAPPEARED
    /\ remote_printers[i] = [lastCalls[k].entry EXCEPT !.timeout = now + TIMEOUT_RETRY]
    /\ QueueNamed(cups, remote_printers[i].name) # {}

\* the queue name found_cups_printer derives from the URI of a packet
PacketQueueName(pk) == remove_bad_chars(Tail(pk.uri.resource), 0)

\* after the step the registry has one entry more, and an entry e is in it
\* that satisfies New
Created(New(_)) ==
  /\ Len(remote_printers') = Len(remote_printers) + 1
  /\ \E k \in 1..Len(remote_printers') : New(remote_printers'[k])

\* the positions of the array a whose entry is p but for status and deadline
Twins(a, p) ==
  {k \in 1..Len(a) : a[k] = [p EXCEPT !.status = a[k].status,
                                      !.timeout = a[k].timeout]}

\* the pass has taken an entry that is p but for status and deadline out of
\* the registry
Destroyed(p) ==
  Cardinality(Twins(remote_printers', p)) < Cardinality(Twins(remote_printers, p))

\* the pass sent the request op for the entry at position i, successfully
SentOk(op, i) == \E c \in PassCalls(i) : c.op = op /\ c.ok

(* C8: a legacy announcement for a spooler queue that is neither in the     *)
(* registry nor in the spooler creates a non-duplicate entry in             *)
(* BROWSE_PACKET_RECEIVED with an immediate deadline; the next pass sends   *)
(* the create-or-modify for it and, when that succeeds, leaves the entry    *)
(* Disappeared with deadline now + BrowseTimeout; a pass before that        *)
(* deadline leaves the entry alone, and a pass at or after it sends a       *)
(* successful delete and destroys the entry, when there are no active jobs, *)
(* the queue is not the default and the delete succeeds.  While the entry   *)
(* is the only one of its name, the queue is in the spooler with the        *)
(* entry's URI after the first of these passes and gone after the last.     *)
C8_LegacyLease ==
  [][/\ \A pk \in Packets : \A src \in Addresses :
          (/\ BrowsePacket(pk, src)
           /\ Named(remote_printers, PacketQueueName(pk)) = {}
           /\ QueueNamed(cups, PacketQueueName(pk)) = {}
           /\ \A c \in cups : c.device_uri # pk.uri)
          => LET New(e) == /\ e.name = PacketQueueName(pk)
                           /\ e.uri = pk.uri
                           /\ e.status = STATUS_BROWSE_PACKET_RECEIVED
                           /\ e.duplicate = 0
                           /\ e.timeout = now + TIMEOUT_IMMEDIATELY
                           /\ e.ppd = NULL /\ e.model = NULL /\ e.ifscript = NULL
             IN Created(New)
     /\ InLoop =>
        \A i \in Entries :
          LET p == remote_printers[i]
          IN (/\ p.status = STATUS_BROWSE_PACKET_RECEIVED
              /\ p.duplicate = 0
              /\ p.timeout <= now
              /\ p.ppd = NULL /\ p.model = NULL /\ p.ifscript = NULL
              /\ AllOk(i))
             => /\ SentOk("add-modify", i)
                /\ \E k \in 1..Len(remote_printers') :
                     remote_printers'[k] =
                       [p EXCEPT !.status = STATUS_DISAPPEARED,
                                 !.timeout = now + BrowseTimeout]
                /\ Named(remote_printers, p.name) = {i}
                     => /\ QueueNamed(cups', p.name) # {}
                        /\ \A c \in QueueNamed(cups', p.name) :
                             c.device_uri = p.uri /\ c.byUs
     /\ InLoop =>
        \A i \in Entries :
          LET p == remote_printers[i]
          IN (/\ p.status = STATUS_DISAPPEARED
              /\ p.duplicate = 0)
             => /\ p.timeout > now
                     => /\ \E k \in 1..Len(remote_printers') :
                             remote_printers'[k] = p
                        /\ PassCalls(i) = {}
                /\ (p.timeout <= now /\ AllOk(i))
                     => /\ SentOk("delete", i)
                        /\ Destroyed(p)
                        /\ Named(remote_printers, p.name) = {i}
                             => QueueNamed(cups', p.name) = {}
    ]_vars

\* the lease of a queue learnt from a legacy packet has run out and a pass
\* has deleted the queue and destroyed the entry
C8_Witness ==
  /\ now = StartTime + BrowseTimeout
  /\ remote_printers = <<>>
  /\ cups = {}
  /\ \E k \in 1..Len(lastCalls) :
       /\ lastCalls[k].op = "delete"
       /\ lastCalls[k].ok
       /\ lastCalls[k].entry.host = <<"h1">>
       /\ lastCalls[k].entry.type = ""
       /\ lastCalls[k].entry.status = STATUS_DISAPPEARED
       /\ lastCalls[k].entry.timeout = now

(* C9: with CreateIPPPrinterQueues set, the Announce of a native network    *)
(* printer that advertises PDF and answers the capability request, for      *)
(* which the registry has no matching entry and the spooler no queue with   *)
(* its URI, creates a non-duplicate entry in TO_BE_CREATED with an          *)
(* immediate deadline that holds exactly one of a PPD and an interface      *)
(* script; the next pass sends the create-or-modify with that file and,     *)
(* when it succeeds, leaves the entry Confirmed with deadline Never.        *)
C9_DriverlessAnnounce ==
  [][/\ \A s \in Services : \A probe \in Probes(s) :
          (/\ Announce(s, probe)
           /\ IsNative(s)
           /\ CreateIPPPrinterQueues # 0
           /\ probe # "fail"
           /\ \A c \in cups : c.device_uri # UriOf(s)
           /\ \A i \in Named(remote_printers, QueueNameOf(s)) :
                /\ remote_printers[i].host # <<>>
                /\ remote_printers[i].status # STATUS_UNCONFIRMED
                /\ remote_printers[i].status # STATUS_DISAPPEARED
                /\ ~StrCaseEq(remote_printers[i].host, RemoteHost(s.host)))
          => LET New(e) == /\ e.name = QueueNameOf(s)
                           /\ e.uri = UriOf(s)
                           /\ e.status = STATUS_TO_BE_CREATED
                           /\ e.duplicate = 0
                           /\ e.timeout = now + TIMEOUT_IMMEDIATELY
                           /\ (e.ppd = NULL) # (e.ifscript = NULL)
                           /\ e.ppd # "freed" /\ e.ifscript # "freed"
             IN Created(New)
     /\ InLoop =>
        \A i \in Entries :
          LET p == remote_printers[i]
          IN (/\ p.status = STATUS_TO_BE_CREATED
              /\ p.duplicate = 0
              /\ p.timeout <= now
              /\ (p.ppd = NULL) # (p.ifscript = NULL)
              /\ ~HasFreed(p)
              /\ p.model = NULL)
             => /\ \E c \in PassCalls(i) :
                     /\ c.op = "add-modify"
                     /\ c.file = IF p.ppd # NULL THEN p.ppd ELSE p.ifscript
                /\ AllOk(i)
                     => /\ \E k \in 1..Len(remote_printers') :
                             remote_printers'[k] =
                               [p EXCEPT !.status = STATUS_CONFIRMED,
                                         !.timeout = Never, !.ifscript = NULL]
                        /\ Named(remote_printers, p.name) = {i}
                             => \E q \in QueueNamed(cups', p.name) :
                                  q.device_uri = p.uri
    ]_vars

\* the queue of a native printer has been created with a generated file and
\* its entry is Confirmed
C9_Witness ==
  \E i \in Entries : \E k \in 1..Len(lastCalls) :
    /\ remote_printers[i].host = <<"h3">>
    /\ remote_printers[i].status = STATUS_CONFIRMED
    /\ remote_printers[i].timeout = Never
    /\ lastCalls[k].op = "add-modify"
    /\ lastCalls[k].ok
    /\ lastCalls[k].file \in {"ppd", "ifscript"}
    /\ lastCalls[k].uri = remote_printers[i].uri
    /\ \E c \in QueueNamed(cups, remote_printers[i].name) :
         c.device_uri = remote_printers[i].uri

\* entry p is a duplicate
IsDuplicate(p) == p.duplicate # 0

(* C10: no pass sends a request to the spooler for an entry whose duplicate *)
(* flag is set: after a pass the duplicates in the registry are the         *)
(* duplicates from before it without the Disappeared (or Unconfirmed) ones  *)
(* whose deadline has passed, the pending ones with deadline Never, and     *)
(* every request of the pass was sent for a non-duplicate entry.            *)
C10_DuplicatesNeverProvisioned ==
  [][LET After(a) ==
           LET Stays(p) ==
                 /\ IsDuplicate(p)
                 /\ ~(/\ p.status \in {STATUS_DISAPPEARED, STATUS_UNCONFIRMED}
                      /\ p.timeout <= now)
               kept == SelectSeq(a, Stays)
               expect == [k \in 1..Len(kept) |->
                            IF kept[k].status \in {STATUS_TO_BE_CREATED,
                                                   STATUS_BROWSE_PACKET_RECEIVED}
                            THEN [kept[k] EXCEPT !.timeout = Never]
                            ELSE kept[k]]
           IN /\ SelectSeq(remote_printers', IsDuplicate) = expect
              /\ \A k \in 1..Len(lastCalls') : lastCalls'[k].duplicate = 0
     IN EveryPass(After)]_vars

\* a pass has left a pending duplicate with deadline Never
C10_Witness ==
  \E i \in Entries :
    /\ IsDuplicate(remote_printers[i])
    /\ remote_printers[i].status = STATUS_TO_BE_CREATED
    /\ remote_printers[i].timeout = Never
    /\ lastCalls # <<>>

\* the create-or-modify the pass sent for the entry at position i failed
CreateFailed(i) == \E c \in PassCalls(i) : c.op = "add-modify" /\ ~c.ok

(* C11: when the create-or-modify of a pass for a non-duplicate entry in    *)
(* TO_BE_CREATED or BROWSE_PACKET_RECEIVED fails, the entry is still in the *)
(* registry after the pass with its status, name, uri, host and duplicate   *)
(* flag unchanged and its deadline set to now + the retry interval, and the *)
(* pass has sent no other request for it.                                   *)
C11_CreateFailureRetries ==
  [][InLoop =>
       \A i \in Entries :
         LET p == remote_printers[i]
         IN (/\ p.status \in {STATUS_TO_BE_CREATED, STATUS_BROWSE_PACKET_RECEIVED}
             /\ p.duplicate = 0
             /\ CreateFailed(i))
            => /\ Len(remote_printers') >= 1
               /\ \E k \in 1..Len(remote_printers') :
                    remote_printers'[k] =
                      [p EXCEPT !.timeout = now + TIMEOUT_RETRY,
                                !.ppd = remote_printers'[k].ppd,
                                !.ifscript = remote_printers'[k].ifscript]
               /\ \A c \in PassCalls(i) : c.op = "add-modify"
    ]_vars

\* a pass has failed to create the queue of a pending entry, which is kept
\* for a retry
C11_Witness ==
  \E i \in Entries : \E k \in 1..Len(lastCalls) :
    /\ lastCalls[k].op = "add-modify"
    /\ ~lastCalls[k].ok
    /\ remote_printers[i].status \in {STATUS_TO_BE_CREATED,
                                      STATUS_BROWSE_PACKET_RECEIVED}
    /\ remote_printers[i].name = lastCalls[k].name
    /\ remote_printers[i].uri = lastCalls[k].uri
    /\ remote_printers[i].timeout = now + TIMEOUT_RETRY

\* the delete the pass sent for the entry at position i failed
DeleteFailed(i) == \E c \in PassCalls(i) : c.op = "delete" /\ ~c.ok

\* after the step an entry for the announced service s is in the registry
\* that is due at now + the retry interval
RetryScheduledFor(s) ==
  \E k \in 1..Len(remote_printers') :
    /\ remote_printers'[k].name = QueueNameOf(s)
    /\ remote_printers'[k].uri = UriOf(s)
    /\ remote_printers'[k].timeout = now + TIMEOUT_RETRY

(* C12: a transport error is always retried: when the create-or-modify or   *)
(* the delete of a pass fails, the entry is kept with deadline now + the    *)
(* retry interval; and when the capability request to a native network      *)
(* printer fails while its accepted Announce (driverless provisioning on,   *)
(* known PDL, no queue with its URI, no matching entry) is processed, an    *)
(* entry for the printer is in the registry with deadline now + the retry   *)
(* interval.                                                                *)
C12_TransportErrorsRetried ==
  [][/\ InLoop =>
          \A i \in Entries :
            LET p == remote_printers[i]
            IN (p.duplicate = 0 /\ (CreateFailed(i) \/ DeleteFailed(i)))
               => \E k \in 1..Len(remote_printers') :
                    /\ remote_printers'[k].name = p.name
                    /\ remote_printers'[k].uri = p.uri
                    /\ remote_printers'[k].timeout = now + TIMEOUT_RETRY
     /\ \A s \in Services :
          (/\ Announce(s, "fail")
           /\ IsNative(s)
           /\ CreateIPPPrinterQueues # 0
           /\ PdlKnown(TxtPdl(s.txt))
           /\ \A c \in cups : c.device_uri # UriOf(s)
           /\ QueueNamed(cups, QueueNameOf(s)) = {}
           /\ Named(remote_printers, QueueNameOf(s)) = {})
          => RetryScheduledFor(s)
    ]_vars

----------------------------------------------------------------------------
(* The daemon with BrowseAllow lines, listening to CUPS browse packets only *)

InitAllow ==
  /\ InitDaemon
  /\ CreateIPPPrinterQueues = 0
  /\ \E lines \in AllowLines : \E shift0 \in {0, Full} :
       /\ browseallow = read_browseallow(lines, shift0)
       /\ browseallow_all = (\E i \in 1..Len(lines) : lines[i].form = "all")
  /\ autoshutdown = 0
  /\ autoshutdown_avahi = 0
  /\ autoshutdown_exec_id = 0
  /\ autoshutdown_source = NoTimer

NextAllow ==
  \/ \E pk \in Packets : \E src \in Addresses : BrowsePacket(pk, src)
  \/ TimerPass
  \/ Shutdown
  \/ Tick

SpecAllow == InitAllow /\ [][NextAllow]_vars

\* the address src is the address of the configured value v, or lies in the
\* network v gives by address/bits or address/mask
ValueMatches(v, src) ==
  CASE v.form = "ip" -> src = v.addr
    [] v.form = "net/mask" -> BitAnd(src, v.arg) = BitAnd(v.addr, v.arg)
    [] v.form = "net/bits" /\ v.arg <= AddrBits ->
         src \div 2 ^ (AddrBits - v.arg) = v.addr \div 2 ^ (AddrBits - v.arg)
    [] OTHER -> FALSE

\* no access rule is configured, "all" is configured, or src matches a valid
\* allow rule
Permitted(src) ==
  \/ browseallow_all
  \/ browseallow = <<>>
  \/ \E i \in 1..Len(browseallow) : ValueMatches(browseallow[i].value, src)

(* C13: a browse packet whose source address is not permitted (rules are    *)
(* configured, "all" is not, and the address matches no valid rule) leaves  *)
(* the registry, with every entry's status and deadline, the reconciliation *)
(* timer, the spooler mirror and the spooler unchanged.                     *)
C13_DisallowedPacketDiscarded ==
  [][\A pk \in Packets : \A src \in Addresses :
       (BrowsePacket(pk, src) /\ ~Permitted(src))
         => UNCHANGED <<remote_printers, queues_timer_id, local_printers, browse_data, cups>>
    ]_vars

\* rules are configured, and every step so far was a packet that left the
\* registry and the spooler empty
C13_Witness ==
  /\ browseallow # <<>>
  /\ ~browseallow_all
  /\ nsteps > 0
  /\ now = StartTime
  /\ remote_printers = <<>>
  /\ cups = {}
  /\ \E src \in Addresses : ~Permitted(src)

----------------------------------------------------------------------------
(* The sanitizer on its own: a string, a mode and the byte in front of the  *)
(* buffer are drawn, and remove_bad_chars is applied to them once.          *)

SanChars == {"q", "1", "_", "-", "!", "/"}

\* the strings of at most n characters of SanChars
StringsUpTo(n) == UNION {[1..k -> SanChars] : k \in 0..n}

LaserJet == <<"H", "P", " ", "L", "a", "s", "e", "r", "J", "e", "t", "!", "!",
              " ", "4", "0", "0">>
WeirdName == <<"-", "w", "e", "i", "r", "d", "-", "-", "n", "a", "m", "e", "-">>

SanInputs == StringsUpTo(MaxStrLen) \cup {LaserJet, WeirdName}

InitSanitize ==
  /\ InitDaemon
  /\ CreateIPPPrinterQueues = 0
  /\ browseallow = <<>>
  /\ browseallow_all = FALSE
  /\ autoshutdown = 0
  /\ autoshutdown_avahi = 0
  /\ autoshutdown_exec_id = 0
  /\ autoshutdown_source = NoTimer

\* a call remove_bad_chars(str, mode)
Sanitize(str, mode, before) ==
  /\ sanitized = NoCall
  /\ sanitized' = [mode |-> mode, str |-> str,
                   before |-> rbc_underrun(str, mode, before),
                   out |-> remove_bad_chars(str, mode)]
  /\ UNCHANGED <<remote_printers, local_printers, browse_data, cups, now, queues_timer_id,
                 gmainloop, nsteps, lastCalls, config, pollvars, autovars,
                 browsepoll_printers>>

NextSanitize ==
  \E str \in SanInputs : \E mode \in {0, 1} : \E before \in {"-", "q"} :
    Sanitize(str, mode, before)

SpecSanitize == InitSanitize /\ [][NextSanitize]_vars

\* the characters the reference keeps
KeptChars(mode) ==
  UpperCase \cup LowerCase \cup Digits \cup {"_"}
    \cup (IF mode = 1 THEN {"/", ".", ","} ELSE {})

\* the positions of s that start a maximal run of characters outside keep,
\* and those that hold a character of keep
RunStarts(s, keep) ==
  {i \in 1..Len(s) : s[i] \notin keep /\ (i = 1 \/ s[i - 1] \in keep)}
KeptAt(s, keep) == {i \in 1..Len(s) : s[i] \in keep}

\* the k-th smallest element of the set of numbers S
Nth(S, k) == CHOOSE x \in S : Cardinality({y \in S : y < x}) = k - 1

\* s with each maximal run of characters outside keep replaced by one '-'
Collapsed(s, keep) ==
  LET P == RunStarts(s, keep) \cup KeptAt(s, keep)
  IN [k \in 1..Cardinality(P) |->
        IF s[Nth(P, k)] \in keep THEN s[Nth(P, k)] ELSE "-"]

\* s without its leading and trailing '-'
Stripped(s) ==
  LET I == {i \in 1..Len(s) : s[i] # "-"}
  IN IF I = {} THEN <<>>
     ELSE SubSeq(s, Nth(I, 1), Nth(I, Cardinality(I)))

Reference(s, mode) == Stripped(Collapsed(s, KeptChars(mode)))

(* C14: for every string and mode the result of the sanitizer is the        *)
(* reference: letters, digits and '_' (and '/', '.', ',' in mode 1) kept,   *)
(* each maximal run of other characters replaced by one '-', leading and    *)
(* trailing '-' stripped; "HP LaserJet!! 400" gives "HP-LaserJet-400" and   *)
(* "-weird--name-" gives "weird-name" in mode 0; no character of the result *)
(* is outside the kept characters and '-'.                                  *)
C14_SanitizerIsReference ==
  sanitized # NoCall =>
    /\ sanitized.out = Reference(sanitized.str, sanitized.mode)
    /\ (sanitized.str = LaserJet /\ sanitized.mode = 0) =>
         sanitized.out = <<"H", "P", "-", "L", "a", "s", "e", "r", "J", "e",
                           "t", "-", "4", "0", "0">>
    /\ (sanitized.str = WeirdName /\ sanitized.mode = 0) =>
         sanitized.out = <<"w", "e", "i", "r", "d", "-", "n", "a", "m", "e">>
    /\ \A i \in 1..Len(sanitized.out) :
         sanitized.out[i] \in KeptChars(sanitized.mode) \cup {"-"}

\* the sanitizer has been applied to a string that starts and ends with a
\* run of other characters and has one in the middle
C14_Witness ==
  /\ sanitized # NoCall
  /\ sanitized.str = WeirdName
  /\ sanitized.mode = 0
  /\ sanitized.out # sanitized.str

\* the deadlines of the registry a other than Never
Deadlines(a) == {a[i].timeout : i \in 1..Len(a)} \ {Never}

\* the smallest of the non-empty set of numbers S
Least(S) == CHOOSE x \in S : \A y \in S : x <= y

(* C15: after every reconciliation pass inside the main loop the            *)
(* reconciliation timer is armed if and only if some entry has a deadline   *)
(* other than Never, and it then fires at the least such deadline, or at    *)
(* once when that deadline is not in the future.                            *)
C15_TimerAtMinimumDeadline ==
  [][InLoop =>
       IF Deadlines(remote_printers') = {}
       THEN queues_timer_id' = NoTimer
       ELSE /\ queues_timer_id' # NoTimer
            /\ queues_timer_id' =
                 IF Least(Deadlines(remote_printers')) > now'
                 THEN Least(Deadlines(remote_printers'))
                 ELSE now'
    ]_vars

\* a pass has left one entry waiting for a later deadline and the timer is
\* armed for it
C15_Witness ==
  /\ gmainloop = "running"
  /\ lastCalls # <<>>
  /\ queues_timer_id # NoTimer
  /\ queues_timer_id > now
  /\ Len(remote_printers) >= 2
  /\ \E i, j \in 1..Len(remote_printers) :
       /\ remote_printers[i].timeout # Never
       /\ remote_printers[j].timeout # Never
       /\ remote_printers[i].timeout < remote_printers[j].timeout

----------------------------------------------------------------------------
(* The daemon with one BrowsePoll server: browse_poll either fetches the    *)
(* server's printer list or replays the list of the last fetch.             *)

\* found_cups_printer for each printer of list; the server of the model
\* shares at most one printer (PollAnswers)
found_cups_printers(a, lp, list, t, flag) ==
  IF list = <<>> THEN a
  ELSE found_cups_printer(a, lp, netifs, list[1].uri, list[1].info, t, flag)

\* printers = g_list_insert (printers, printer, 0) for each printer of list
Prepended(list) == [i \in 1..Len(list) |-> list[Len(list) + 1 - i]]

\* the answers of the BrowsePoll server to CUPS-Get-Printers
PollAnswers == {<<>>} \cup {<<pk>> : pk \in Packets}

\* the answers of the BrowsePoll server to the requests about the
\* subscription: notify is the status of IPP-Get-Notifications ("none" when
\* the request is not sent), create says whether IPP-Create-Subscription
\* returns an id
PollResponse(notify, create) == [notify |-> notify, create |-> create]

\* the answers to the requests browse_poll sends in the state (can, id)
PollResponses(can, id) ==
  IF ~can THEN {PollResponse("none", "none")}
  ELSE IF id = -1
  THEN {PollResponse("none", "ok"), PollResponse("none", "fail")}
  ELSE {PollResponse("events", "none"), PollResponse("no-events", "none"),
        PollResponse("error", "none"), PollResponse("not-found", "ok"),
        PollResponse("not-found", "fail")}

\* the server numbers its subscriptions: a new one differs from the last
NewSubscriptionId(id) == IF id = 1 THEN 2 ELSE 1

Subscription(can, id, get_printers) ==
  [can_subscribe |-> can, subscription_id |-> id, get_printers |-> get_printers]

\* a variant that keeps the subscription id when no id is returned
browse_poll_create_subscription_KeepsId(can, id, create) ==
  IF create = "ok" THEN Subscription(can, NewSubscriptionId(id), TRUE)
  ELSE Subscription(FALSE, id, TRUE)

\* browse_poll_create_subscription (the caller sets get_printers)
browse_poll_create_subscription(can, id, create) ==
  IF create = "ok" THEN Subscription(can, NewSubscriptionId(id), TRUE)
  ELSE Subscription(FALSE, -1, TRUE)

\* browse_poll_get_notifications
browse_poll_get_notifications(can, id, resp) ==
  IF resp.notify = "not-found"
  THEN browse_poll_create_subscription(can, id, resp.create)
  ELSE IF resp.notify = "error" THEN Subscription(FALSE, -1, TRUE)
  ELSE Subscription(can, id, resp.notify = "events")

\* browse_poll, lines 2615-2627: the subscription after the poll and whether
\* the printer list is fetched
browse_poll_subscription(can, id, resp) ==
  IF can
  THEN IF id = -1
       THEN browse_poll_create_subscription(can, id, resp.create)
       ELSE browse_poll_get_notifications(can, id, resp)
  ELSE Subscription(can, id, TRUE)

\* browse_poll with get_printers = TRUE: browse_poll_get_printers
BrowsePollFetch(resp, list) ==
  /\ gmainloop = "running"
  /\ nsteps < MaxSteps
  /\ nsteps' = nsteps + 1
  /\ browse_poll_subscription(can_subscribe, subscription_id, resp).get_printers
  /\ can_subscribe' =
       browse_poll_subscription(can_subscribe, subscription_id, resp).can_subscribe
  /\ subscription_id' =
       browse_poll_subscription(can_subscribe, subscription_id, resp).subscription_id
  /\ local_printers' = fcp_local_printers(list)
  /\ browse_data' = fcp_browse_data(list)
  /\ remote_printers' =
       found_cups_printers(remote_printers, fcp_local_printers(list), list, now,
                           CreateIPPPrinterQueues)
  /\ browsepoll_printers' = Prepended(list)
  /\ queues_timer_id' =
       recheck_timer(remote_printers', now, gmainloop, queues_timer_id)
  /\ autoshutdown_exec_id' =
       create_kills_timer(autoshutdown, autoshutdown_exec_id,
         autoshutdown_source, remote_printers, remote_printers').id
  /\ autoshutdown_source' =
       create_kills_timer(autoshutdown, autoshutdown_exec_id,
         autoshutdown_source, remote_printers, remote_printers').source
  /\ lastCalls' = <<>>
  /\ UNCHANGED <<cups, now, gmainloop, config, autoshutdown, sanitized>>

\* browse_poll with get_printers = FALSE (the notification request reports
\* no event): browsepoll_printer_keepalive for each printer of the last fetch
BrowsePollKeepalive ==
  /\ gmainloop = "running"
  /\ nsteps < MaxSteps
  /\ nsteps' = nsteps + 1
  /\ can_subscribe
  /\ subscription_id # -1
  /\ local_printers' = fcp_local_printers(browsepoll_printers)
  /\ browse_data' = fcp_browse_data(browsepoll_printers)
  /\ remote_printers' =
       found_cups_printers(remote_printers,
                           fcp_local_printers(browsepoll_printers),
                           browsepoll_printers, now, CreateIPPPrinterQueues)
  /\ autoshutdown_exec_id' =
       create_kills_timer(autoshutdown, autoshutdown_exec_id,
         autoshutdown_source, remote_printers, remote_printers').id
  /\ autoshutdown_source' =
       create_kills_timer(autoshutdown, autoshutdown_exec_id,
         autoshutdown_source, remote_printers, remote_printers').source
  /\ lastCalls' = <<>>
  /\ UNCHANGED <<cups, now, gmainloop, config, pollvars, autoshutdown,
                 queues_timer_id, browsepoll_printers, sanitized>>

NextPoll ==
  \/ \E s \in Services : \E probe \in Probes(s) : Announce(s, probe)
  \/ \E s \in Services : Withdraw(s)
  \/ \E pk \in Packets : \E src \in Addresses : BrowsePacket(pk, src)
  \/ \E list \in PollAnswers :
     \E resp \in PollResponses(can_subscribe, subscription_id) :
       BrowsePollFetch(resp, list)
  \/ BrowsePollKeepalive
  \/ TimerPass
  \/ Shutdown
  \/ Tick

SpecPoll == Init /\ [][NextPoll]_vars

\* the step is an event handler (discovery event or poll) that has changed
\* the registry
EventChanged ==
  /\ gmainloop = "running"
  /\ gmainloop' = "running"
  /\ nsteps' # nsteps
  /\ now' = now
  /\ remote_printers' # remote_printers

(* C16: after every event handler that has created an entry or changed an   *)
(* entry's status or deadline (Announce, Withdraw, legacy packet, BrowsePoll *)
(* fetch, BrowsePoll keep-alive replay), the reconciliation timer is armed  *)
(* and fires no later than the least deadline other than Never of the       *)
(* registry (at once when that deadline is not in the future).              *)
C16_EventsRecomputeTimer ==
  [][EventChanged =>
       (Deadlines(remote_printers') # {} =>
          /\ queues_timer_id' # NoTimer
          /\ \/ queues_timer_id' <= Least(Deadlines(remote_printers'))
             \/ queues_timer_id' <= now')
    ]_vars

----------------------------------------------------------------------------
(* The daemon with the auto shutdown policy switched by SIGUSR1 and SIGUSR2 *)
(* (autoshutdown_avahi is off).  The handlers of the two signals are        *)
(* installed with sigset/sigaction/signal and run asynchronously.           *)

\* main before g_main_loop_run: the shutdown is scheduled when the policy is
\* on and no entry was found
InitAuto ==
  /\ InitDaemon
  /\ CreateIPPPrinterQueues = 0
  /\ browseallow = <<>>
  /\ browseallow_all = FALSE
  /\ autoshutdown \in {0, 1}
  /\ autoshutdown_avahi = 0
  /\ autoshutdown_exec_id =
       IF autoshutdown # 0 /\ Len(remote_printers) = 0 THEN 1 ELSE 0
  /\ autoshutdown_source =
       IF autoshutdown # 0 /\ Len(remote_printers) = 0
       THEN StartTime + autoshutdown_timeout ELSE NoTimer

\* sigusr1_handler, delivered between two callbacks of the main loop
Sigusr1 ==
  /\ gmainloop = "running"
  /\ nsteps < MaxSteps
  /\ nsteps' = nsteps + 1
  /\ autoshutdown' = 0
  /\ autoshutdown_exec_id' = 0
  /\ autoshutdown_source' =
       IF autoshutdown_exec_id > 0 THEN NoTimer ELSE autoshutdown_source
  /\ lastCalls' = <<>>
  /\ UNCHANGED <<remote_printers, local_printers, browse_data, cups, now, queues_timer_id,
                 gmainloop, config, pollvars, browsepoll_printers, sanitized>>

\* sigusr2_handler, delivered between two callbacks of the main loop
Sigusr2 ==
  /\ gmainloop = "running"
  /\ nsteps < MaxSteps
  /\ nsteps' = nsteps + 1
  /\ autoshutdown' = 1
  /\ IF autoshutdown_exec_id = 0 /\ Len(remote_printers) = 0
     THEN /\ autoshutdown_exec_id' = 1
          /\ autoshutdown_source' = now + autoshutdown_timeout
     ELSE UNCHANGED <<autoshutdown_exec_id, autoshutdown_source>>
  /\ lastCalls' = <<>>
  /\ UNCHANGED <<remote_printers, local_printers, browse_data, cups, now, queues_timer_id,
                 gmainloop, config, pollvars, browsepoll_printers, sanitized>>

\* a timer pass that removes the last entry, with SIGUSR1 delivered between
\* the test of autoshutdown and autoshutdown_exec_id and the call of
\* g_timeout_add_seconds: the handler finds no timer to kill, and the pass
\* goes on to schedule the shutdown
TimerPassSigusr1 ==
  /\ gmainloop = "running"
  /\ queues_timer_id # NoTimer
  /\ now >= queues_timer_id
  /\ autoshutdown # 0
  /\ autoshutdown_exec_id = 0
  /\ \E env \in Answers(remote_printers, now),
        def \in Defaults(remote_printers, now) :
       LET r == handle_cups_queues_result(remote_printers, now, env, def)
       IN /\ Len(r.printers) < Len(remote_printers)
          /\ Len(r.printers) = 0
          /\ remote_printers' = r.printers
          /\ cups' = ApplyCalls(cups, r.calls)
          /\ lastCalls' = r.calls
          /\ queues_timer_id' = recheck_timer(r.printers, now, gmainloop,
                                              queues_timer_id)
  /\ autoshutdown' = 0
  /\ autoshutdown_exec_id' = 1
  /\ autoshutdown_source' = now + autoshutdown_timeout
  /\ UNCHANGED <<local_printers, browse_data, now, gmainloop, config, pollvars, nsteps,
                 browsepoll_printers, sanitized>>

\* autoshutdown_execute, and main after g_main_loop_run when it quits the
\* loop (the registry is empty then, so the final pass finds nothing)
AutoshutdownExecute ==
  /\ gmainloop = "running"
  /\ autoshutdown_source # NoTimer
  /\ now >= autoshutdown_source
  /\ autoshutdown_source' = NoTimer
  /\ gmainloop' = IF autoshutdown # 0 /\ Len(remote_printers) = 0
                  THEN "exited" ELSE gmainloop
  /\ lastCalls' = <<>>
  /\ UNCHANGED <<remote_printers, local_printers, browse_data, cups, now, queues_timer_id,
                 config, pollvars, nsteps, autoshutdown, autoshutdown_exec_id,
                 browsepoll_printers, sanitized>>

NextAuto ==
  \/ \E s \in Services : \E probe \in Probes(s) : Announce(s, probe)
  \/ \E s \in Services : Withdraw(s)
  \/ TimerPass
  \/ TimerPassSigusr1
  \/ Sigusr1
  \/ Sigusr2
  \/ AutoshutdownExecute
  \/ Shutdown
  \/ Tick

SpecAuto == InitAuto /\ [][NextAuto]_vars

(* C17: a step that adds an entry to the registry while an auto shutdown    *)
(* timer is pending leaves no such timer pending, and a step in which the   *)
(* auto shutdown timer ends the main loop is taken with the registry empty  *)
(* and the policy on.                                                       *)
C17_NewEntryCancelsShutdown ==
  [][/\ (autoshutdown_source # NoTimer
           /\ Len(remote_printers') > Len(remote_printers))
          => autoshutdown_source' = NoTimer
     /\ (AutoshutdownExecute /\ gmainloop' = "exited")
          => (remote_printers = <<>> /\ autoshutdown # 0)
    ]_vars

(* C18: while the main loop runs with the auto shutdown policy on and the   *)
(* registry empty, a shutdown timer is pending.                             *)
C18_ShutdownPendingWhenIdle ==
  (gmainloop = "running" /\ autoshutdown # 0 /\ remote_printers = <<>>)
    => autoshutdown_source # NoTimer

(* C19: every entry with duplicate set has another entry of the same name   *)
(* (compared case-insensitively) with duplicate clear.                      *)
C19_DuplicateHasPrimary ==
  \A i \in Entries :
    remote_printers[i].duplicate # 0 =>
      \E j \in Entries :
        /\ j # i
        /\ StrCaseEq(remote_printers[j].name, remote_printers[i].name)
        /\ remote_printers[j].duplicate = 0

(* C20: every entry in status CONFIRMED with duplicate clear has a queue of *)
(* its name in the spooler whose device URI is the entry's uri.             *)
C20_ConfirmedHasQueue ==
  \A i \in Entries :
    (remote_printers[i].status = STATUS_CONFIRMED
       /\ remote_printers[i].duplicate = 0)
      => \E q \in cups :
           /\ StrCaseEq(q.name, remote_printers[i].name)
           /\ q.device_uri = remote_printers[i].uri

(* C21: an entry whose deadline is Never is in status CONFIRMED or has      *)
(* duplicate set; every entry with duplicate clear in status UNCONFIRMED,   *)
(* TO_BE_CREATED, BROWSE_PACKET_RECEIVED or DISAPPEARED has a deadline      *)
(* other than Never.                                                        *)
C21_NeverOnlyConfirmedOrDuplicate ==
  \A i \in Entries :
    remote_printers[i].timeout = Never =>
      \/ remote_printers[i].status = STATUS_CONFIRMED
      \/ remote_printers[i].duplicate # 0

\* a pass has confirmed an entry and left a duplicate of it pending without
\* a deadline, and a Withdraw has then given the confirmed one a deadline
C21_Witness ==
  \E i, j \in Entries :
    /\ remote_printers[i].duplicate = 0
    /\ remote_printers[i].status = STATUS_DISAPPEARED
    /\ remote_printers[i].timeout # Never
    /\ remote_printers[j].duplicate # 0
    /\ remote_printers[j].status # STATUS_CONFIRMED
    /\ remote_printers[j].timeout = Never

----------------------------------------------------------------------------
\* the entries of the array a called name that are no duplicates
Primaries(a, name) == {k \in 1..Len(a) : a[k].name = name /\ a[k].duplicate = 0}

\* the step has sent a delete for the queue name that the spooler accepted
DeletedQueue(name) ==
  \E k \in 1..Len(lastCalls') :
    /\ lastCalls'[k].op = "delete"
    /\ lastCalls'[k].ok
    /\ lastCalls'[k].name = name
    /\ lastCalls'[k].duplicate = 0

(* C22: a non-duplicate entry leaves the registry only in a step that is a  *)
(* pass whose delete request for the entry's name succeeded; and when, in a *)
(* pass, the delete for a non-duplicate entry fails, or the active-jobs     *)
(* query before it returns an error (the requests of an unreachable spooler *)
(* fail: the connection is held open from startup on), the entry is in the  *)
(* registry after the pass as Disappeared, due at now + the retry interval. *)
C22_RemovedOnlyAfterDelete ==
  [][/\ \A i \in Entries :
          LET name == remote_printers[i].name
          IN Cardinality(Primaries(remote_printers', name))
               < Cardinality(Primaries(remote_printers, name))
             => DeletedQueue(name)
     /\ LET After(a) ==
              \A i \in 1..Len(a) :
                (a[i].duplicate = 0 /\ (DeleteFailed(i) \/ JobsFound(i)))
                  => \E k \in 1..Len(remote_printers') :
                       remote_printers'[k] =
                         [a[i] EXCEPT !.status = STATUS_DISAPPEARED,
                                      !.timeout = now + TIMEOUT_RETRY]
        IN EveryPass(After)]_vars

\* a pass has sent a delete that failed, and the entry is kept for a retry
C22_Witness ==
  \E i \in Entries : \E k \in 1..Len(lastCalls) :
    /\ lastCalls[k].op = "delete"
    /\ ~lastCalls[k].ok
    /\ lastCalls[k].duplicate = 0
    /\ remote_printers[i] =
         [lastCalls[k].entry EXCEPT !.status = STATUS_DISAPPEARED,
                                    !.timeout = now + TIMEOUT_RETRY]
    /\ QueueNamed(cups, remote_printers[i].name) # {}

----------------------------------------------------------------------------
\* entry i is the entry a Withdraw of s matches: the first one that carries
\* the service name, type and domain of s
WithdrawMatches(s, i) ==
  LET Listed(p) == p.service_name = s.name /\ p.type = s.type
                                           /\ p.domain = s.domain
  IN /\ Listed(remote_printers[i])
     /\ \A k \in 1..(i - 1) : ~Listed(remote_printers[k])

\* entry j is a duplicate with the name of entry i on another host
BackupOf(i, j) ==
  /\ StrCaseEq(remote_printers[j].name, remote_printers[i].name)
  /\ ~StrCaseEq(remote_printers[j].host, remote_printers[i].host)
  /\ remote_printers[j].duplicate # 0

\* entry j is the duplicate the failover of entry i takes: the first one
FirstBackupOf(i, j) ==
  /\ remote_printers[i].duplicate = 0
  /\ BackupOf(i, j)
  /\ \A k \in 1..(j - 1) : ~BackupOf(i, k)

(* C23: a Withdraw that matches a non-duplicate entry A for which a         *)
(* duplicate B of the same name on another host exists leaves A with its    *)
(* name and duplicate = 0 and with B's uri, host, service name, type and    *)
(* domain and B's ppd, model and ifscript (NULL wherever B's are NULL), in  *)
(* TO_BE_CREATED with an immediate deadline; B becomes Disappeared with an  *)
(* immediate deadline; every other entry is unchanged.                      *)
C23_FailoverTakesBackup ==
  [][\A s \in Services : \A i, j \in Entries :
       (Withdraw(s) /\ WithdrawMatches(s, i) /\ FirstBackupOf(i, j))
       => LET A == remote_printers[i]
              B == remote_printers[j]
          IN /\ Len(remote_printers') = Len(remote_printers)
             /\ remote_printers'[i] =
                  [A EXCEPT !.uri = B.uri,
                            !.host = B.host,
                            !.service_name = B.service_name,
                            !.type = B.type,
                            !.domain = B.domain,
                            !.ppd = B.ppd,
                            !.model = B.model,
                            !.ifscript = B.ifscript,
                            !.status = STATUS_TO_BE_CREATED,
                            !.timeout = now + TIMEOUT_IMMEDIATELY]
             /\ remote_printers'[j] =
                  [B EXCEPT !.status = STATUS_DISAPPEARED,
                            !.timeout = now + TIMEOUT_IMMEDIATELY]
             /\ \A k \in Entries \ {i, j} :
                  remote_printers'[k] = remote_printers[k]
    ]_vars

----------------------------------------------------------------------------
(* C24: a Withdraw that matches an entry for which the failover finds no    *)
(* duplicate on another host makes that entry Disappeared with deadline     *)
(* now + TIMEOUT_REMOVE and changes no other entry; and a pass leaves a     *)
(* non-duplicate Disappeared entry whose deadline is still ahead in the     *)
(* registry as it is and sends no delete for it.                            *)
C24_WithdrawSchedulesRemoval ==
  [][/\ \A s \in Services : \A i \in Entries :
          (/\ Withdraw(s)
           /\ WithdrawMatches(s, i)
           /\ ~\E j \in Entries : FirstBackupOf(i, j))
          => /\ Len(remote_printers') = Len(remote_printers)
             /\ remote_printers'[i] =
                  [remote_printers[i] EXCEPT !.status = STATUS_DISAPPEARED,
                                             !.timeout = now + TIMEOUT_REMOVE]
             /\ \A k \in Entries \ {i} :
                  remote_printers'[k] = remote_printers[k]
     /\ LET After(a) ==
              \A i \in 1..Len(a) :
                (/\ a[i].status = STATUS_DISAPPEARED
                 /\ a[i].duplicate = 0
                 /\ a[i].timeout > now)
                => /\ \A c \in PassCalls(i) : c.op # "delete"
                   /\ \E k \in 1..Len(remote_printers') : remote_printers'[k] = a[i]
        IN EveryPass(After)]_vars

\* a Withdraw has left the entry of a provisioned queue Disappeared and due
\* at now + TIMEOUT_REMOVE
C24_Witness ==
  \E i \in Entries :
    /\ remote_printers[i].status = STATUS_DISAPPEARED
    /\ remote_printers[i].duplicate = 0
    /\ remote_printers[i].timeout = now + TIMEOUT_REMOVE
    /\ gmainloop = "running"
    /\ lastCalls = <<>>
    /\ Cardinality(Named(remote_printers, remote_printers[i].name)) = 1
    /\ \E c \in QueueNamed(cups, remote_printers[i].name) : c.byUs

----------------------------------------------------------------------------
(* Resolution of announcements against a spooler that has queues of its own *)
(* and a host that announces its queue q as a printer, over IPPS and as a   *)
(* class.                                                                   *)

UnknownPdlTxt == [present |-> TRUE, product |-> <<"(", "n", ")">>,
                  usb_MDL |-> NullString, ty |-> NullString,
                  pdl |-> <<"application/x-unknown">>]

ResolveServices ==
  { Service("A", <<"h1">>, <<"printers/", "q">>, "q @ h1", "_ipp._tcp", CupsTxt),
    Service("As", <<"h1">>, <<"printers/", "q">>, "q @ h1", "_ipps._tcp", CupsTxt),
    Service("Ac", <<"h1">>, <<"classes/", "q">>, "q @ h1", "_ipp._tcp", CupsTxt),
    Service("N", <<"h3">>, <<"ipp/print">>, "n @ h3", "_ipp._tcp", UnknownPdlTxt) }

\* a queue the administrator has set up: no cups-browsed mark
ForeignQueue(name) ==
  NewQueue(name, AssembleURI("usb", <<"local">>, <<"x">>), FALSE, FALSE)

\* backup_queue_name of the queue q on h1
BackupName == <<"q">> \o <<"@">> \o RemoteHost(<<"h1">>)

ResolveSpoolers ==
  { {},
    {ForeignQueue(<<"q">>)},
    {ForeignQueue(<<"q">>), ForeignQueue(BackupName)} }

InitResolve ==
  /\ BrowseLocalProtocols = {}
  /\ browse_data = <<>>
  /\ can_subscribe = TRUE
  /\ subscription_id = -1
  /\ BrowseRemoteProtocols = {"DNSSD", "CUPS"}
  /\ cups \in ResolveSpoolers
  /\ local_printers = get_local_printers(cups)
  /\ now = StartTime
  /\ remote_printers = find_previous_queues(get_local_printers(cups), <<>>, StartTime)
  /\ gmainloop = "running"
  /\ queues_timer_id = recheck_timer_value(remote_printers, StartTime)
  /\ nsteps = 0
  /\ lastCalls = <<>>
  /\ browsepoll_printers = <<>>
  /\ sanitized = NoCall
  /\ CreateIPPPrinterQueues \in {0, 1}
  /\ browseallow = <<>>
  /\ browseallow_all = FALSE
  /\ autoshutdown = 0
  /\ autoshutdown_avahi = 0
  /\ autoshutdown_exec_id = 0
  /\ autoshutdown_source = NoTimer

NextResolve ==
  \/ \E s \in ResolveServices : \E probe \in Probes(s) : Announce(s, probe)
  \/ \E s \in ResolveServices : Withdraw(s)
  \/ \E pk \in Packets : \E src \in Addresses : BrowsePacket(pk, src)
  \/ TimerPass
  \/ Tick

SpecResolve == InitResolve /\ [][NextResolve]_vars

\* local_queue_name: the name generate_local_queue settles on for the
\* announced service s
LocalQueueName(s) ==
  LET lp == get_local_printers(cups)
      backup == QueueNameOf(s) \o <<"@">> \o RemoteHost(s.host)
  IN IF (~\E l \in lp : l.device_uri = UriOf(s)) /\ ForeignLocal(lp, QueueNameOf(s))
     THEN backup ELSE QueueNameOf(s)

\* entry i is the entry generate_local_queue finds for the announced service
\* s, and it has the name and the host of s
AnnounceMatches(s, i) ==
  LET Match(p) == /\ StrCaseEq(p.name, LocalQueueName(s))
                  /\ \/ p.host = <<>>
                     \/ p.status = STATUS_UNCONFIRMED
                     \/ p.status = STATUS_DISAPPEARED
                     \/ StrCaseEq(p.host, RemoteHost(s.host))
  IN /\ Match(remote_printers[i])
     /\ \A k \in 1..(i - 1) : ~Match(remote_printers[k])
     /\ StrCaseEq(remote_printers[i].host, RemoteHost(s.host))

\* the announcement of s upgrades entry p to IPPS or changes its URI
UpgradesOrChanges(s, p) ==
  \/ s.type = "_ipps._tcp" /\ p.uri.scheme = "ipp"
  \/ ~StrCaseEq(UriAfterScheme(p.uri), UriAfterScheme(UriOf(s)))

(* C25: when an Announce matches an entry by name and host and the service  *)
(* is of the IPPS type while the entry's URI is an ipp: one, or the URI     *)
(* after the scheme differs, the entry gets the announced uri, host,        *)
(* service name, type and domain and is TO_BE_CREATED with an immediate     *)
(* deadline, name and duplicate unchanged; otherwise its uri, name and      *)
(* duplicate are unchanged and an identity field changes only from empty to *)
(* the announced value.                                                     *)
C25_AnnounceUpgradesEntry ==
  [][\A s \in ResolveServices : \A i \in Entries :
       ((\E probe \in Probes(s) : Announce(s, probe)) /\ AnnounceMatches(s, i))
       => LET p == remote_printers[i]
              n == remote_printers'[i]
          IN /\ Len(remote_printers') = Len(remote_printers)
             /\ n.name = p.name
             /\ n.duplicate = p.duplicate
             /\ IF UpgradesOrChanges(s, p)
                THEN /\ n.uri = UriOf(s)
                     /\ n.host = RemoteHost(s.host)
                     /\ n.service_name = s.name
                     /\ n.type = s.type
                     /\ n.domain = s.domain
                     /\ n.status = STATUS_TO_BE_CREATED
                     /\ n.timeout = now + TIMEOUT_IMMEDIATELY
                ELSE /\ n.uri = p.uri
                     /\ n.host = p.host \/ (p.host = <<>> /\ n.host = RemoteHost(s.host))
                     /\ n.service_name = p.service_name
                          \/ (p.service_name = "" /\ n.service_name = s.name)
                     /\ n.type = p.type \/ (p.type = "" /\ n.type = s.type)
                     /\ n.domain = p.domain \/ (p.domain = "" /\ n.domain = s.domain)
    ]_vars

----------------------------------------------------------------------------
\* the entries of the array a that carry exactly the name name
CalledExactly(a, name) == {k \in 1..Len(a) : a[k].name = name}

\* the names of the queues of the mirror lp that cups-browsed has not marked
ForeignNames(lp) == {l.name : l \in {x \in lp : ~x.cups_browsed_controlled}}

(* C26: no step adds an entry under a name that the refreshed mirror has as *)
(* a queue without the cups-browsed mark; an announcement whose queue name  *)
(* is such a name adds an entry only under name@host; and when name@host is *)
(* such a name too, the announcement leaves the registry unchanged.         *)
C26_NoEntryUnderForeignName ==
  [][/\ \A name \in ForeignNames(local_printers') :
          Cardinality(CalledExactly(remote_printers', name))
            <= Cardinality(CalledExactly(remote_printers, name))
     /\ \A s \in ResolveServices :
          LET remote_queue == QueueNameOf(s)
              backup_queue_name == remote_queue \o <<"@">> \o RemoteHost(s.host)
          IN ((\E probe \in Probes(s) : Announce(s, probe))
              /\ remote_queue \in ForeignNames(local_printers'))
             => /\ Len(remote_printers') > Len(remote_printers)
                  => Cardinality(CalledExactly(remote_printers', backup_queue_name))
                       > Cardinality(CalledExactly(remote_printers, backup_queue_name))
                /\ backup_queue_name \in ForeignNames(local_printers')
                  => remote_printers' = remote_printers
    ]_vars

\* the spooler has a queue q of its own and the registry an entry for the
\* announced queue under the name q@h1
C26_Witness ==
  /\ <<"q">> \in ForeignNames(local_printers)
  /\ CalledExactly(remote_printers, BackupName) # {}
  /\ CalledExactly(remote_printers, <<"q">>) = {}

----------------------------------------------------------------------------
\* the policy for IPP network printers lets the announced service s in
Provisionable(s) ==
  CreateIPPPrinterQueues # 0 /\ PdlKnown(TxtPdl(s.txt))

(* C27: the Announce of an IPP network printer (resource under neither      *)
(* printers/ nor classes/) adds no entry unless CreateIPPPrinterQueues is   *)
(* set and the pdl of the TXT record names PostScript, PDF, PWG Raster, PCL *)
(* or PCL-XL; an announcement the policy rejects leaves the registry and    *)
(* the auto-shutdown timer as they are.                                     *)
C27_NativeNeedsKnownPdl ==
  [][\A s \in Services :
       (/\ \E probe \in Probes(s) : Announce(s, probe)
        /\ IsNative(s)
        /\ ~Provisionable(s))
       => /\ Len(remote_printers') = Len(remote_printers)
          /\ remote_printers' = remote_printers
          /\ autoshutdown_exec_id' = autoshutdown_exec_id
          /\ autoshutdown_source' = autoshutdown_source
    ]_vars

----------------------------------------------------------------------------
(* C28: a pass of the main loop at or after the deadline of a non-duplicate *)
(* Unconfirmed entry treats it as Disappeared in that same pass: when the   *)
(* active-jobs query finds nothing, the queue is not reported as the        *)
(* default and the delete succeeds, the delete has been sent and the entry  *)
(* is out of the registry; otherwise the entry is in the registry as        *)
(* Disappeared, due at now + the retry interval.  A pass before the         *)
(* deadline sends nothing for the entry and leaves it as it is.             *)
C28_UnconfirmedExpires ==
  [][InLoop =>
       \A i \in Entries :
         LET p == remote_printers[i]
         IN (p.status = STATUS_UNCONFIRMED /\ p.duplicate = 0)
            => IF p.timeout > now
               THEN /\ PassCalls(i) = {}
                    /\ \E k \in 1..Len(remote_printers') : remote_printers'[k] = p
               ELSE IF AllOk(i)
               THEN /\ SentOk("delete", i)
                    /\ Destroyed(p)
               ELSE \E k \in 1..Len(remote_printers') :
                      remote_printers'[k] =
                        [p EXCEPT !.status = STATUS_DISAPPEARED,
                                  !.timeout = now + TIMEOUT_RETRY]
    ]_vars

\* a pass of the main loop has removed the queue of an entry that no
\* announcement has confirmed (its host is still empty) at its deadline
C28_Witness ==
  /\ gmainloop = "running"
  /\ \E k \in 1..Len(lastCalls) :
       /\ lastCalls[k].op = "delete"
       /\ lastCalls[k].ok
       /\ lastCalls[k].entry.host = <<>>
       /\ lastCalls[k].entry.status = STATUS_DISAPPEARED
       /\ lastCalls[k].entry.timeout = now + TIMEOUT_IMMEDIATELY
       /\ Named(remote_printers, lastCalls[k].name) = {}
       /\ QueueNamed(cups, lastCalls[k].name) = {}

----------------------------------------------------------------------------
(* Startup: the daemon before main has read the queues of the spooler; the  *)
(* spooler holds queues of earlier sessions and queues of its own.          *)

UriP == AssembleURI("ipp", <<"h2">>, <<"printers/", "printer">>)

StartupQueues ==
  { NewQueue(<<"q">>, UriA, TRUE, FALSE),
    NewQueue(<<"printer">>, UriP, TRUE, FALSE),
    ForeignQueue(<<"h1">>) }

StartupSpoolers == SUBSET StartupQueues

InitStartup ==
  /\ BrowseLocalProtocols = {}
  /\ browse_data = <<>>
  /\ can_subscribe = TRUE
  /\ subscription_id = -1
  /\ BrowseRemoteProtocols \in {{"DNSSD"}, {"CUPS"}, {"DNSSD", "CUPS"}}
  /\ cups \in StartupSpoolers
  /\ local_printers = {}
  /\ now = StartTime
  /\ remote_printers = <<>>
  /\ gmainloop = "starting"
  /\ queues_timer_id = NoTimer
  /\ nsteps = 0
  /\ lastCalls = <<>>
  /\ browsepoll_printers = <<>>
  /\ sanitized = NoCall
  /\ CreateIPPPrinterQueues = 0
  /\ browseallow = <<>>
  /\ browseallow_all = FALSE
  /\ autoshutdown = 0
  /\ autoshutdown_avahi = 0
  /\ autoshutdown_exec_id = 0
  /\ autoshutdown_source = NoTimer

\* main: update_local_printers, find_previous_queue for every queue of the
\* mirror, recheck_timer, g_main_loop_run
Startup ==
  /\ gmainloop = "starting"
  /\ gmainloop' = "running"
  /\ local_printers' = get_local_printers(cups)
  /\ browse_data' = update_browse_data(cups)
  /\ remote_printers' = find_previous_queues(get_local_printers(cups), <<>>, now)
  /\ queues_timer_id' = recheck_timer_value(remote_printers', now)
  /\ lastCalls' = <<>>
  /\ UNCHANGED <<cups, now, config, pollvars, nsteps, autovars, browsepoll_printers,
                 sanitized>>

NextStartup ==
  \/ Startup
  \/ TimerPass
  \/ Shutdown
  \/ Tick

SpecStartup == InitStartup /\ [][NextStartup]_vars

\* the queues of the spooler that carry the cups-browsed mark
MarkedQueues == {l \in get_local_printers(cups) : l.cups_browsed_controlled}

(* C29: startup leaves in the registry one entry for every queue of the     *)
(* spooler that carries the cups-browsed mark and no other entry; the entry *)
(* has the name and the device URI of the queue, duplicate = 0, status      *)
(* UNCONFIRMED and the deadline now + BrowseTimeout when BrowseRemoteProtocols *)
(* has CUPS and now + TIMEOUT_CONFIRM otherwise.                            *)
C29_StartupRegistry ==
  [][Startup =>
       /\ Len(remote_printers') = Cardinality(MarkedQueues)
       /\ \A l \in MarkedQueues :
            \E k \in 1..Len(remote_printers') :
              /\ remote_printers'[k].name = l.name
              /\ remote_printers'[k].uri = l.device_uri
              /\ \A j \in 1..Len(remote_printers') :
                   remote_printers'[j].name = l.name => j = k
       /\ \A k \in 1..Len(remote_printers') :
            /\ \E l \in MarkedQueues : remote_printers'[k].name = l.name
            /\ remote_printers'[k].duplicate = 0
            /\ remote_printers'[k].status = STATUS_UNCONFIRMED
            /\ remote_printers'[k].timeout =
                 IF "CUPS" \in BrowseRemoteProtocols
                 THEN now + BrowseTimeout ELSE now + TIMEOUT_CONFIRM
    ]_vars

\* the daemon has started, without legacy discovery, on a spooler with two
\* queues of an earlier session and a queue of its own
C29_Witness ==
  /\ gmainloop = "running"
  /\ nsteps = 0
  /\ now = StartTime
  /\ "CUPS" \notin BrowseRemoteProtocols
  /\ cups = StartupQueues
  /\ Len(remote_printers) = 2
  /\ \A k \in 1..Len(remote_printers) :
       /\ remote_printers[k].status = STATUS_UNCONFIRMED
       /\ remote_printers[k].timeout = StartTime + TIMEOUT_CONFIRM


(* ------------------------------------------------------------------ *)
(* The subscription of the BrowsePoll server                            *)
(* ------------------------------------------------------------------ *)

\* the daemon with a BrowsePoll server as its only source of printers
NextSubscribe ==
  \/ \E list \in PollAnswers :
     \E resp \in PollResponses(can_subscribe, subscription_id) :
       BrowsePollFetch(resp, list)
  \/ BrowsePollKeepalive
  \/ TimerPass
  \/ Shutdown
  \/ Tick

SpecSubscribe == Init /\ [][NextSubscribe]_vars

\* the poll of this step asks the server for the whole printer list
FullFetch(resp) ==
  browse_poll_subscription(can_subscribe, subscription_id, resp).get_printers

(* C30: a "not found" answer to the notification request creates a new
   subscription and the same poll fetches the whole printer list; any other
   failure of the notification request, and a subscription creation that
   returns no id, leave can_subscribe false and subscription_id -1; once
   can_subscribe is false it stays false and every poll fetches the whole
   printer list. *)
C30_SubscriptionFallback ==
  [][ /\ \A resp \in PollResponses(can_subscribe, subscription_id) :
           /\ resp.notify = "not-found" => FullFetch(resp)
           /\ ~can_subscribe => FullFetch(resp)
           /\ \A list \in PollAnswers :
                BrowsePollFetch(resp, list) =>
                  /\ resp.notify = "not-found" /\ resp.create = "ok" =>
                       /\ can_subscribe'
                       /\ subscription_id' \notin {-1, subscription_id}
                  /\ resp.notify = "error" \/ resp.create = "fail" =>
                       /\ ~can_subscribe'
                       /\ subscription_id' = -1
      /\ ~can_subscribe => ~can_subscribe' /\ ~BrowsePollKeepalive
      /\ ~can_subscribe' => subscription_id' = -1 ]_vars

\* the server lost its subscription, and the polls fetch the printers
C30_Witness ==
  /\ ~can_subscribe
  /\ subscription_id = -1
  /\ nsteps >= 2
  /\ browsepoll_printers # <<>>
  /\ remote_printers # <<>>

----------------------------------------------------------------------------
(* The keep-alive poll *)

\* the entry has its queue in the spooler, made by a pass of this process
Provisioned(p) ==
  /\ p.duplicate = 0
  /\ \E c \in cups : /\ StrCaseEq(c.name, p.name)
                     /\ c.device_uri = p.uri
                     /\ c.byUs

\* a state in which the notification request can report no event
CanReportNoEvents ==
  PollResponse("no-events", "none") \in PollResponses(can_subscribe, subscription_id)

(* C31: a poll whose notification request reports no event fetches no
   printer list and leaves the list of the last fetch as it is; every
   provisioned entry with the URI of a printer of that list is, after the
   poll, Disappeared with deadline now + BrowseTimeout. *)
C31_KeepaliveRefreshesLease ==
  [][ /\ CanReportNoEvents => ~FullFetch(PollResponse("no-events", "none"))
      /\ BrowsePollKeepalive =>
           /\ CanReportNoEvents
           /\ browsepoll_printers' = browsepoll_printers
           /\ UNCHANGED pollvars
           /\ \A k \in 1..Len(browsepoll_printers) : \A i \in Entries :
                (/\ remote_printers[i].uri = browsepoll_printers[k].uri
                  /\ Provisioned(remote_printers[i]))
                => \E j \in 1..Len(remote_printers') :
                     remote_printers'[j] =
                       [remote_printers[i] EXCEPT
                          !.status = STATUS_DISAPPEARED,
                          !.timeout = now + BrowseTimeout] ]_vars

\* a keep-alive poll has refreshed the lease of a provisioned entry
C31_Witness ==
  /\ can_subscribe
  /\ subscription_id # -1
  /\ now > StartTime
  /\ lastCalls = <<>>
  /\ \E k \in 1..Len(browsepoll_printers) : \E i \in Entries :
       /\ remote_printers[i].uri = browsepoll_printers[k].uri
       /\ Provisioned(remote_printers[i])
       /\ remote_printers[i].status = STATUS_DISAPPEARED
       /\ remote_printers[i].timeout = now + BrowseTimeout

----------------------------------------------------------------------------
(* The daemon that also advertises the shared queues of the local spooler   *)
(* (BrowseLocalProtocols CUPS).                                             *)

\* a queue the administrator has set up and shares
SharedQueue(name) == [ForeignQueue(name) EXCEPT !.shared = TRUE]

ShareSpoolers ==
  { {SharedQueue(<<"lp">>)},
    {SharedQueue(<<"q">>)},
    {SharedQueue(<<"lp">>), NewQueue(<<"q">>, UriA, TRUE, FALSE)} }

InitShare ==
  /\ can_subscribe = TRUE
  /\ subscription_id = -1
  /\ BrowseRemoteProtocols = {"DNSSD"}
  /\ BrowseLocalProtocols = {"CUPS"}
  /\ cups \in ShareSpoolers
  /\ local_printers = get_local_printers(cups)
  /\ browse_data = prepare_browse_data(cups)
  /\ now = StartTime
  /\ remote_printers = find_previous_queues(get_local_printers(cups), <<>>, StartTime)
  /\ gmainloop = "running"
  /\ queues_timer_id = recheck_timer_value(remote_printers, StartTime)
  /\ nsteps = 0
  /\ lastCalls = <<>>
  /\ browsepoll_printers = <<>>
  /\ sanitized = NoCall
  /\ CreateIPPPrinterQueues = 0
  /\ browseallow = <<>>
  /\ browseallow_all = FALSE
  /\ autoshutdown = 0
  /\ autoshutdown_avahi = 0
  /\ autoshutdown_exec_id = 0
  /\ autoshutdown_source = NoTimer

\* send_browse_data: the mirror and the browse data are brought up to date
\* and every element of browse_data is broadcast
SendBrowseData ==
  /\ gmainloop = "running"
  /\ "CUPS" \in BrowseLocalProtocols
  /\ nsteps < MaxSteps
  /\ nsteps' = nsteps + 1
  /\ local_printers' = get_local_printers(cups)
  /\ browse_data' = update_browse_data(cups)
  /\ lastCalls' = <<>>
  /\ UNCHANGED <<remote_printers, cups, now, queues_timer_id, gmainloop, config,
                 pollvars, autovars, browsepoll_printers, sanitized>>

\* the remote spoolers that share the queue q
ShareServices == {s \in Services : ~IsNative(s)}

NextShare ==
  \/ \E s \in ShareServices : \E probe \in Probes(s) : Announce(s, probe)
  \/ \E s \in ShareServices : Withdraw(s)
  \/ SendBrowseData
  \/ TimerPass
  \/ Shutdown
  \/ Tick

SpecShare == InitShare /\ [][NextShare]_vars

\* the name of the queue that the element d of browse_data advertises
AdvertisedName(d) == SubSeq(d.uri.resource, 2, Len(d.uri.resource))

(* C32: every create-or-modify request of a pass carries the cups-browsed
   mark and printer-is-shared=false, so that a queue a pass has created or
   modified is marked and not shared; the browse data that send_browse_data
   broadcasts hold no queue that the spooler reports as not shared, and so
   none that a pass of this process has created or modified. *)
C32_OwnQueuesNotAdvertised ==
  [][ /\ \A k \in 1..Len(lastCalls') :
           lastCalls'[k].op = "add-modify" =>
             /\ "cups-browsed-default=true" \in lastCalls'[k].options
             /\ "printer-is-shared=false" \in lastCalls'[k].options
      /\ \A q \in cups' : q.byUs => q.controlled /\ ~q.shared
      /\ SendBrowseData =>
           \A i \in 1..Len(browse_data') : \A q \in cups :
             StrCaseEq(q.name, AdvertisedName(browse_data'[i]))
               => q.shared /\ ~q.byUs ]_vars

\* a pass has made a queue, the browse data were prepared after that and
\* hold the shared queue of the administrator only
C32_Witness ==
  /\ \E q \in cups : q.byUs
  /\ \E q \in cups : q.shared
  /\ local_printers = get_local_printers(cups)
  /\ Len(browse_data) = 1
  /\ lastCalls = <<>>

----------------------------------------------------------------------------
(* Entries learnt from legacy packets and BrowsePoll results *)

\* the entry p is still waiting for its queue after the step
StillReceived(p) ==
  \E j \in 1..Len(remote_printers') :
    /\ remote_printers'[j].name = p.name
    /\ remote_printers'[j].uri = p.uri
    /\ remote_printers'[j].duplicate = 0
    /\ remote_printers'[j].status = STATUS_BROWSE_PACKET_RECEIVED

(* C33: while the daemon runs, a non-duplicate entry made from a legacy
   packet or a BrowsePoll result (BROWSE_PACKET_RECEIVED) keeps waiting for
   its queue until a pass has sent a successful create-or-modify for it: no
   step turns it into a leased entry or removes it before, whatever
   announcements of the same printer and passes come in between. *)
C33_LegacyProvisionedBeforeLease ==
  [][ gmainloop' = "running" =>
        \A i \in Entries :
          (/\ remote_printers[i].status = STATUS_BROWSE_PACKET_RECEIVED
           /\ remote_printers[i].duplicate = 0)
          => \/ StillReceived(remote_printers[i])
             \/ SentOk("add-modify", i) ]_vars

\* the entry p was announced by multicast discovery, is not a duplicate and
\* is Confirmed
ConfirmedByDiscovery(p) ==
  /\ p.type # ""
  /\ p.duplicate = 0
  /\ p.status = STATUS_CONFIRMED

(* C34: a legacy packet leaves every non-duplicate Confirmed entry that
   multicast discovery has announced as it is: Confirmed, with deadline
   Never, so that no lease runs out for it and no pass deletes its queue
   when the packets stop. *)
C34_PacketKeepsConfirmed ==
  [][ \A pk \in Packets : \A src \in Addresses :
        BrowsePacket(pk, src) =>
          \A i \in Entries :
            ConfirmedByDiscovery(remote_printers[i])
            => \E j \in 1..Len(remote_printers') :
                 remote_printers'[j] = remote_printers[i] ]_vars

----------------------------------------------------------------------------
(* The file of the create-or-modify request *)

\* what a create-or-modify request for the entry p is sent with: the PPD the
\* spooler makes from p.model, the PPD file, the interface script, or
\* nothing (a raw queue)
ProvisioningChoice(p) ==
  IF p.model # NULL THEN "serverppd"
  ELSE IF p.ppd # NULL THEN p.ppd
  ELSE IF p.ifscript # NULL THEN p.ifscript
  ELSE NULL

\* the entry is waiting for a create-or-modify request
AwaitsQueue(p) ==
  /\ p.duplicate = 0
  /\ p.status \in {STATUS_TO_BE_CREATED, STATUS_BROWSE_PACKET_RECEIVED}

(* C35: every create-or-modify request is sent with the provisioning choice
   the entry holds, and while an entry with an unchanged uri waits for its
   queue (before the first attempt and after an attempt that failed) no
   step changes that choice: the retry is sent with the PPD or the
   interface script, or raw, as the first attempt was. *)
C35_RetryCarriesSameChoice ==
  [][ /\ \A k \in 1..Len(lastCalls') :
           lastCalls'[k].op = "add-modify" =>
             lastCalls'[k].file = ProvisioningChoice(lastCalls'[k].entry)
      /\ \A i \in Entries : \A j \in 1..Len(remote_printers') :
           (/\ AwaitsQueue(remote_printers[i])
            /\ AwaitsQueue(remote_printers'[j])
            /\ remote_printers'[j].name = remote_printers[i].name
            /\ remote_printers'[j].uri = remote_printers[i].uri)
           => ProvisioningChoice(remote_printers'[j]) =
                ProvisioningChoice(remote_printers[i]) ]_vars

----------------------------------------------------------------------------
(* The deadlines a pass leaves behind *)

\* an entry of the registry after the step whose deadline is not in the
\* future of the time t
ExpiredAfter(t) ==
  {j \in 1..Len(remote_printers') :
     /\ remote_printers'[j].timeout # Never
     /\ remote_printers'[j].timeout <= t}

(* C36: a pass at time t, in the main loop or the final one, leaves no
   entry with a deadline other than Never at or before t, and a pass in the
   main loop leaves the timer unarmed or due after t. *)
C36_PassLeavesNoExpiredEntry ==
  [][ /\ (InLoop \/ Exiting) => ExpiredAfter(now) = {}
      /\ InLoop => queues_timer_id' = NoTimer \/ queues_timer_id' > now ]_vars

\* a pass has examined an expired entry and put it off: the entry is still
\* in the registry, with a deadline in the future, and the timer is armed
\* for it
C36_Witness ==
  /\ gmainloop = "running"
  /\ \E k \in 1..Len(lastCalls) : ~lastCalls[k].ok
  /\ \E i \in Entries : remote_printers[i].timeout = now + TIMEOUT_RETRY
  /\ queues_timer_id = now + TIMEOUT_RETRY

----------------------------------------------------------------------------
(* The encrypted scheme *)

\* the entry p points to the encrypted variant of the service s
EncryptedEntryOf(s, p) == p.uri = AssembleURI("ipps", s.host, s.rp)

\* the Announce of an unencrypted service s
UnencryptedAnnounce(s) ==
  /\ s.type = "_ipp._tcp"
  /\ \E probe \in Probes(s) : Announce(s, probe)

(* C37 as stated: the Announce of the unencrypted service leaves every
   entry that points to the ipps URI of the same host and resource with
   that URI and with its status. *)
C37_NoDowngrade ==
  [][ \A s \in ResolveServices :
        UnencryptedAnnounce(s) =>
          \A i \in Entries :
            EncryptedEntryOf(s, remote_printers[i])
            => \E j \in 1..Len(remote_printers') :
                 /\ remote_printers'[j].name = remote_printers[i].name
                 /\ remote_printers'[j].uri = remote_printers[i].uri
                 /\ remote_printers'[j].status = remote_printers[i].status ]_vars

(* C37, amended: the Announce of the unencrypted service leaves every entry
   that points to the ipps URI of the same host and resource with that URI,
   and with its status and deadline unless the entry is Unconfirmed or
   Disappeared, which the Announce may turn into Confirmed with deadline
   Never. *)
C37_NoDowngradeButConfirms ==
  [][ \A s \in ResolveServices :
        UnencryptedAnnounce(s) =>
          \A i \in Entries :
            EncryptedEntryOf(s, remote_printers[i])
            => \E j \in 1..Len(remote_printers') :
                 /\ remote_printers'[j].name = remote_printers[i].name
                 /\ remote_printers'[j].uri = remote_printers[i].uri
                 /\ \/ /\ remote_printers'[j].status = remote_printers[i].status
                       /\ remote_printers'[j].timeout = remote_printers[i].timeout
                    \/ /\ remote_printers[i].status \in
                            {STATUS_UNCONFIRMED, STATUS_DISAPPEARED}
                       /\ remote_printers'[j].status = STATUS_CONFIRMED
                       /\ remote_printers'[j].timeout = Never ]_vars

\* an entry with an ipps URI was withdrawn and the Announce of the
\* unencrypted service has confirmed it: no pass has made its queue
C37_Witness ==
  \E i \in Entries :
    /\ remote_printers[i].uri.scheme = "ipps"
    /\ remote_printers[i].status = STATUS_CONFIRMED
    /\ remote_printers[i].duplicate = 0
    /\ \A q \in cups : ~q.byUs

(* ------------------------------------------------------------------ *)
(* Packets and BrowsePoll results that found_cups_printer ignores       *)
(* ------------------------------------------------------------------ *)

\* announcements of this host's own queue (the host of the URI is the
\* address of a broadcast interface, in either spelling) and of a printer
\* whose resource is neither under printers/ nor under classes/
IgnoredPackets ==
  { Packet("OWN", <<"self">>, <<"printers/", "q">>, "q on self"),
    Packet("OWn", <<"SELF">>, <<"printers/", "Q">>, "q on SELF"),
    Packet("BAD", <<"h1">>, <<"ipp/print">>, "np on h1") }

\* the daemon that hears the packets of a remote server and of itself, and
\* polls a server that answers with a printer found_cups_printer ignores
NextIgnore ==
  \/ \E pk \in Packets \cup IgnoredPackets : \E src \in Addresses :
       BrowsePacket(pk, src)
  \/ \E pk \in IgnoredPackets :
     \E resp \in PollResponses(can_subscribe, subscription_id) :
       BrowsePollFetch(resp, <<pk>>)
  \/ BrowsePollKeepalive
  \/ TimerPass
  \/ Shutdown
  \/ Tick

SpecIgnore == Init /\ [][NextIgnore]_vars

(* C38: a legacy-protocol packet or a BrowsePoll result (fetched, or
   replayed by the keepalive) whose URI host is the address of one of this
   host's broadcast interfaces, or whose resource is not under printers/
   or classes/, leaves the registry unchanged: the same entries, in the
   same order, with the same statuses and deadlines. *)
C38_IgnoredLeavesRegistry ==
  [][ /\ \A pk \in IgnoredPackets :
           /\ \A src \in Addresses :
                BrowsePacket(pk, src) => remote_printers' = remote_printers
           /\ \A resp \in PollResponses(can_subscribe, subscription_id) :
                BrowsePollFetch(resp, <<pk>>)
                => remote_printers' = remote_printers
      /\ ( /\ BrowsePollKeepalive
           /\ browsepoll_printers # <<>>
           /\ browsepoll_printers[1] \in IgnoredPackets )
         => remote_printers' = remote_printers ]_vars

\* the server's list holds an ignored printer while the registry holds the
\* entry of the previous session, which is still Unconfirmed with the
\* deadline of the startup: the registry held it when the list was fetched
C38_Witness ==
  /\ browsepoll_printers # <<>>
  /\ browsepoll_printers[1] \in IgnoredPackets
  /\ \E i \in Entries :
       /\ remote_printers[i].status = STATUS_UNCONFIRMED
       /\ remote_printers[i].timeout = StartTime + BrowseTimeout

(* ------------------------------------------------------------------ *)
(* The Avahi server disappears: client_callback, AVAHI_CLIENT_FAILURE   *)
(* with AVAHI_ERR_DISCONNECTED                                          *)
(* ------------------------------------------------------------------ *)

\* a variant that forces every entry, as the end of main does
avahi_browser_shutdown_All(a, t) ==
  [i \in 1..Len(a) |-> [a[i] EXCEPT !.status = STATUS_DISAPPEARED,
                                    !.timeout = t + TIMEOUT_IMMEDIATELY]]

\* avahi_browser_shutdown, the loop over remote_printers
avahi_browser_shutdown(a, t) ==
  [i \in 1..Len(a) |->
     IF a[i].type # ""
     THEN [a[i] EXCEPT !.status = STATUS_DISAPPEARED,
                       !.timeout = t + TIMEOUT_IMMEDIATELY]
     ELSE a[i]]

\* the auto shutdown after handle_cups_queues and the end of
\* avahi_browser_shutdown: before and after are the registry before and
\* after the pass
abs_autoshutdown(as, id, source, before, after, t) ==
  LET p == pass_arms_timer(as, id, source, before, after, t)
      arm == p.id = 0 /\ Len(after) = 0
  IN IF autoshutdown_avahi # 0
     THEN [as |-> 1,
           id |-> IF arm THEN 1 ELSE p.id,
           source |-> IF arm THEN t + autoshutdown_timeout ELSE p.source]
     ELSE [as |-> as, id |-> p.id, source |-> p.source]

\* the state after the handler: a is the registry, calls the requests sent,
\* au the auto shutdown, renewed tells whether avahi_client_new succeeded
AvahiDisconnectedTo(a, calls, au, renewed) ==
  /\ gmainloop = "running"
  /\ nsteps < MaxSteps
  /\ nsteps' = nsteps + 1
  /\ "DNSSD" \in BrowseRemoteProtocols
  /\ remote_printers' = a
  /\ cups' = ApplyCalls(cups, calls)
  /\ lastCalls' = calls
  /\ queues_timer_id' = recheck_timer(a, now, gmainloop, queues_timer_id)
  /\ autoshutdown' = au.as
  /\ autoshutdown_exec_id' = au.id
  /\ autoshutdown_source' = au.source
  /\ BrowseRemoteProtocols' =
       IF renewed THEN BrowseRemoteProtocols
       ELSE BrowseRemoteProtocols \ {"DNSSD"}
  /\ UNCHANGED <<local_printers, browse_data, now, gmainloop,
                 CreateIPPPrinterQueues, browseallow, browseallow_all,
                 autoshutdown_avahi, BrowseLocalProtocols, pollvars,
                 browsepoll_printers, sanitized>>

\* avahi_browser_shutdown once more (avahi_shutdown) from the registry a,
\* after the requests calls and with the auto shutdown au
AvahiShutdownAgain(a, calls, au) ==
  \E forced \in {avahi_browser_shutdown(a, now)} :
  \E env \in Answers(forced, now), def \in Defaults(forced, now) :
  \E r \in {handle_cups_queues_result(forced, now, env, def)} :
    AvahiDisconnectedTo(r.printers, calls \o r.calls,
                        abs_autoshutdown(au.as, au.id, au.source, a,
                                         r.printers, now),
                        FALSE)

\* avahi_browser_shutdown, then the renewal of the client; when the renewal
\* fails, avahi_shutdown calls avahi_browser_shutdown once more
AvahiDisconnected ==
  \E forced \in {avahi_browser_shutdown(remote_printers, now)} :
  \E env \in Answers(forced, now), def \in Defaults(forced, now) :
  \E r \in {handle_cups_queues_result(forced, now, env, def)} :
  \E au \in {abs_autoshutdown(autoshutdown, autoshutdown_exec_id,
                              autoshutdown_source, remote_printers,
                              r.printers, now)} :
    \/ AvahiDisconnectedTo(r.printers, r.calls, au, TRUE)
    \/ AvahiShutdownAgain(r.printers, r.calls, au)

\* the daemon with AutoShutdown avahi and the Avahi server available:
\* client_callback has switched the auto shutdown off
InitAvahi ==
  /\ InitDaemon
  /\ CreateIPPPrinterQueues = 0
  /\ browseallow = <<>>
  /\ browseallow_all = FALSE
  /\ autoshutdown = 0
  /\ autoshutdown_avahi = 1
  /\ autoshutdown_exec_id = 0
  /\ autoshutdown_source = NoTimer

\* the queue printer of h2; the queue q of h1 is known through the legacy
\* packet or from the previous session only
AvahiServices ==
  { Service("P", <<"h2">>, <<"printers/", "printer">>, "printer @ h2",
            "_ipp._tcp", CupsTxt) }

NextAvahi ==
  \/ \E s \in AvahiServices : Announce(s, "fail")
  \/ \E pk \in Packets : BrowsePacket(pk, 0)
  \/ AvahiDisconnected
  \/ AutoshutdownExecute
  \/ TimerPass
  \/ Tick

SpecAvahi == InitAvahi /\ [][NextAvahi]_vars

\* the entry p of the registry before the step is in the registry after the
\* step with its status and its deadline
KeepsStatusAndDeadline(p) ==
  \E j \in 1..Len(remote_printers') :
    /\ remote_printers'[j].name = p.name
    /\ remote_printers'[j].uri = p.uri
    /\ remote_printers'[j].status = p.status
    /\ remote_printers'[j].timeout = p.timeout

\* the handler has forced the entry p to Disappeared and has reconciled it
\* in its pass: p is removed, or it is Disappeared and waits for a retry
ForcedAndReconciled(p) ==
  \A j \in 1..Len(remote_printers') :
    (remote_printers'[j].name = p.name /\ remote_printers'[j].uri = p.uri)
    => /\ remote_printers'[j].status = STATUS_DISAPPEARED
       /\ remote_printers'[j].timeout = now + TIMEOUT_RETRY

(* C39: when the Avahi server disappears, every entry with a non-empty
   type is forced to Disappeared and reconciled by the pass of the same
   handler, and every entry with an empty type (known through the legacy
   protocol or BrowsePoll, or Unconfirmed from a previous session) keeps
   its status and its deadline. *)
C39_OnlyDiscoveredForced ==
  [][ AvahiDisconnected =>
        \A i \in Entries :
          IF remote_printers[i].type # ""
          THEN ForcedAndReconciled(remote_printers[i])
          ELSE KeepsStatusAndDeadline(remote_printers[i]) ]_vars

(* C39, amended: the entries with an empty type keep their status and
   their deadline when the deadline has not passed; the pass of the handler
   reconciles the others like any pass does. *)
C39_OnlyDiscoveredForcedOrDue ==
  [][ AvahiDisconnected =>
        \A i \in Entries :
          IF remote_printers[i].type # ""
          THEN ForcedAndReconciled(remote_printers[i])
          ELSE remote_printers[i].timeout > now
               => KeepsStatusAndDeadline(remote_printers[i]) ]_vars

\* the Avahi server has just disappeared: the main loop runs, no time has
\* passed since the start (no lease and no retry has expired, so only the
\* pass of that handler can have sent a delete), the pass has deleted the
\* queue of a discovered printer, and the registry holds an entry with an
\* empty type whose deadline has not passed
C39_Witness ==
  /\ gmainloop = "running"
  /\ now = StartTime
  /\ autoshutdown = 1
  /\ \E k \in 1..Len(lastCalls) : lastCalls[k].op = "delete"
  /\ \E i \in Entries :
       /\ remote_printers[i].type = ""
       /\ remote_printers[i].timeout > now

(* ------------------------------------------------------------------ *)
(* The indices remove_bad_chars uses on its working string (0-based, as *)
(* in C; the index of the terminating zero is the length)              *)
(* ------------------------------------------------------------------ *)

\* the for loop reads str[i] and writes str[j]; after it, str[j] = '\0'
RECURSIVE rbc_loop_indices(_, _, _, _, _)
rbc_loop_indices(str, i, j, havedash, mode) ==
  IF i > Len(str) THEN {j}
  ELSE IF IsAllowedChar(str[i], mode)
       THEN {i - 1, j} \cup
            rbc_loop_indices([str EXCEPT ![j + 1] = str[i]], i + 1, j + 1, 0,
                             mode)
       ELSE IF havedash = 1
            THEN {i - 1} \cup rbc_loop_indices(str, i + 1, (j - 1) + 1, 1, mode)
            ELSE {i - 1, j} \cup
                 rbc_loop_indices([str EXCEPT ![j + 1] = "-"], i + 1, j + 1, 1,
                                  mode)

\* while (str[strlen(str)-1] == '-') str[strlen(str)-1] = '\0': the index
\* is strlen(str)-1, which is (size_t) -1 for the empty string, the byte in
\* front of the buffer
RECURSIVE rbc_trailing_indices(_)
rbc_trailing_indices(s) ==
  IF s = <<>> THEN {-1}
  ELSE IF s[Len(s)] = "-"
       THEN {Len(s) - 1} \cup rbc_trailing_indices(SubSeq(s, 1, Len(s) - 1))
       ELSE {Len(s) - 1}

\* i = 0; while (str[i] == '-') ++i: the indices up to the first character
\* that is no dash, or to the terminating zero
rbc_leading_indices(s) ==
  0..(Len(s) - Len(rbc_cut_leading(s)))

\* every index of a call with a string of at least one character
rbc_indices(str_orig, mode) ==
  rbc_loop_indices(str_orig, 1, 0, 0, mode)
    \cup rbc_trailing_indices(rbc_terminated(str_orig, mode))
    \cup rbc_leading_indices(rbc_cut_trailing(rbc_terminated(str_orig, mode)))

(* C40: for every input string of at least one character, every index the
   sanitizer reads or writes is within its working string, between 0 and
   the length of the input. *)
C40_IndicesInBounds ==
  (sanitized # NoCall /\ Len(sanitized.str) >= 1)
  => rbc_indices(sanitized.str, sanitized.mode) \subseteq 0..Len(sanitized.str)

====
